---- MODULE Spec2Model ----
(***************************************************************************)
(* Multi-head attention with incremental decoding state, as implemented by *)
(* SelfAttention / DecoderLayer / BartDecoder in                           *)
(* src/transformers/modeling_bart.py.                                      *)
(*                                                                         *)
(* Tensors are modelled the way torch stores them: a record of sizes,      *)
(* strides and the elements in logical row-major order.  Arithmetic is     *)
(* exact: activations are integers, exp(scaling * x) is the integer power  *)
(* 2^x, probabilities and outputs are normalised fractions <<n, d>>, and   *)
(* the fraction <<0, 0>> is NaN (softmax of a row of -inf).  Dropout is    *)
(* the identity (evaluation mode, or dropout = 0.0).                       *)
(***************************************************************************)
EXTENDS Integers, Sequences, FiniteSets, TLC

(***************************************************************************)
(* Optional values: None and Some(x), as Python's None and a value.        *)
(***************************************************************************)
None == <<>>

Some(x) == <<x>>

IsNone(o) == o = <<>>

Get(o) == o[1]

(***************************************************************************)
(* Bind(v, F) is LET x == v IN F(x), with v evaluated once.                *)
(***************************************************************************)
Bind(v, F(_)) == F(v)

(***************************************************************************)
(* Exact arithmetic.                                                       *)
(***************************************************************************)
Abs(n) == IF n < 0 THEN -n ELSE n

RECURSIVE GCD(_, _)
GCD(a, b) == IF b = 0 THEN Abs(a) ELSE GCD(b, a % b)

RECURSIVE Pow2(_)
Pow2(n) == IF n <= 0 THEN 1 ELSE 2 * Pow2(n - 1)

RECURSIVE SumTo(_, _)
SumTo(f, n) == IF n = 0 THEN 0 ELSE f[n] + SumTo(f, n - 1)

RECURSIVE ProdTo(_, _)
ProdTo(f, n) == IF n = 0 THEN 1 ELSE f[n] * ProdTo(f, n - 1)

NaN == <<0, 0>>

Frac(n, d) == IF d = 0 THEN NaN ELSE LET g == GCD(n, d) IN <<n \div g, d \div g>>

FAdd(x, y) == IF x = NaN \/ y = NaN THEN NaN ELSE Frac(x[1] * y[2] + y[1] * x[2], x[2] * y[2])

FScale(c, x) == IF x = NaN THEN NaN ELSE Frac(c * x[1], x[2])

RECURSIVE FSumTo(_, _)
FSumTo(f, n) == IF n = 0 THEN <<0, 1>> ELSE FAdd(f[n], FSumTo(f, n - 1))

(***************************************************************************)
(* Logits: a finite integer or -inf (float("-inf")).                       *)
(***************************************************************************)
Fin(v) == [inf |-> FALSE, v |-> v]

NegInf == [inf |-> TRUE, v |-> 0]

LAdd(x, y) == IF x.inf \/ y.inf THEN NegInf ELSE Fin(x.v + y.v)

ExpW(l) == IF l.inf THEN 0 ELSE Pow2(l.v)

(***************************************************************************)
(* torch tensors: sizes, strides, elements in logical row-major order.     *)
(***************************************************************************)
Numel(sizes) == ProdTo(sizes, Len(sizes))

ContigStrides(sizes) == [d \in 1..Len(sizes) |-> ProdTo([j \in 1..(Len(sizes) - d) |-> sizes[d + j]], Len(sizes) - d)]

Tensor(sizes, flat) == [sizes |-> sizes, strides |-> ContigStrides(sizes), flat |-> SubSeq(flat, 1, Numel(sizes))]

At2(t, i, j) == t.flat[(i - 1) * t.sizes[2] + j]

At3(t, i, j, k) == t.flat[((i - 1) * t.sizes[2] + (j - 1)) * t.sizes[3] + k]

At4(t, i, j, k, l) == t.flat[(((i - 1) * t.sizes[2] + (j - 1)) * t.sizes[3] + (k - 1)) * t.sizes[4] + l]

Build2(a, b, F(_, _)) == Tensor(<<a, b>>, [n \in 1..(a * b) |-> F(((n - 1) \div b) + 1, ((n - 1) % b) + 1)])

Build3(a, b, c, F(_, _, _)) == Tensor(<<a, b, c>>, [n \in 1..(a * b * c) |-> F(((n - 1) \div (b * c)) + 1, (((n - 1) \div c) % b) + 1, ((n - 1) % c) + 1)])

RECURSIVE Consume(_, _, _, _, _, _)
Consume(ns, vd, vn, tn, cbs, acc) ==
    IF vd >= 1 /\ (vn < tn \/ ns[vd] = 1)
    THEN Consume(ns, vd - 1, vn * ns[vd], tn, cbs, [acc EXCEPT ![vd] = vn * cbs])
    ELSE [vd |-> vd, vn |-> vn, acc |-> acc]

RECURSIVE ComputeStride(_, _, _, _, _, _, _, _)
ComputeStride(os, ost, ns, td, vd, cbs, tn0, acc) ==
    IF td = 0
    THEN IF vd = 0 THEN Some(acc) ELSE None
    ELSE LET tn == tn0 * os[td] IN
         IF td = 1 \/ (os[td - 1] # 1 /\ ost[td - 1] # tn * cbs)
         THEN Bind(Consume(ns, vd, 1, tn, cbs, acc), LAMBDA c :
                  IF c.vn # tn THEN None
                  ELSE IF td > 1 THEN ComputeStride(os, ost, ns, td - 1, c.vd, ost[td - 1], 1, c.acc)
                       ELSE ComputeStride(os, ost, ns, 0, c.vd, cbs, 1, c.acc))
         ELSE ComputeStride(os, ost, ns, td - 1, vd, cbs, tn, acc)

InferSizes(numel, shape) ==
    LET known == ProdTo([d \in 1..Len(shape) |-> IF shape[d] = -1 THEN 1 ELSE shape[d]], Len(shape))
    IN  IF \E d \in 1..Len(shape) : shape[d] = -1
        THEN IF known > 0 /\ numel % known = 0
             THEN Some([d \in 1..Len(shape) |-> IF shape[d] = -1 THEN numel \div known ELSE shape[d]])
             ELSE None
        ELSE IF known = numel THEN Some(shape) ELSE None

View(t, shape) ==
    Bind(InferSizes(Numel(t.sizes), shape), LAMBDA ns :
        IF IsNone(ns) THEN None
        ELSE Bind(ComputeStride(t.sizes, t.strides, Get(ns), Len(t.sizes), Len(shape),
                                t.strides[Len(t.sizes)], 1, [d \in 1..Len(shape) |-> 0]), LAMBDA st :
                 IF IsNone(st) THEN None
                 ELSE Some([sizes |-> Get(ns), strides |-> Get(st), flat |-> t.flat])))

Transpose01(t) ==
    LET a == t.sizes[1]
        b == t.sizes[2]
        c == t.sizes[3]
    IN  [sizes   |-> <<b, a, c>>,
         strides |-> <<t.strides[2], t.strides[1], t.strides[3]>>,
         flat    |-> SubSeq([n \in 1..(a * b * c) |-> At3(t, (((n - 1) \div c) % a) + 1, ((n - 1) \div (a * c)) + 1, ((n - 1) % c) + 1)], 1, a * b * c)]

Transpose12(t) ==
    LET a == t.sizes[1]
        b == t.sizes[2]
        c == t.sizes[3]
    IN  [sizes   |-> <<a, c, b>>,
         strides |-> <<t.strides[1], t.strides[3], t.strides[2]>>,
         flat    |-> SubSeq([n \in 1..(a * b * c) |-> At3(t, ((n - 1) \div (b * c)) + 1, ((n - 1) % b) + 1, (((n - 1) \div b) % c) + 1)], 1, a * b * c)]

Contiguous(t) == Tensor(t.sizes, t.flat)

CatOK(x, y) == Len(x.sizes) = Len(y.sizes) /\ \A d \in 1..Len(x.sizes) : d = 2 \/ x.sizes[d] = y.sizes[d]

Cat1of3(x, y) ==
    LET F(i, j, k) == IF j <= x.sizes[2] THEN At3(x, i, j, k) ELSE At3(y, i, j - x.sizes[2], k)
    IN  Build3(x.sizes[1], x.sizes[2] + y.sizes[2], x.sizes[3], F)

Cat1of2(x, y) ==
    LET F(i, j) == IF j <= x.sizes[2] THEN At2(x, i, j) ELSE At2(y, i, j - x.sizes[2])
    IN  Build2(x.sizes[1], x.sizes[2] + y.sizes[2], F)

Zeros2(a, b) == Tensor(<<a, b>>, [n \in 1..(a * b) |-> 0])

(***************************************************************************)
(* SelfAttention.__init__: the unit's immutable configuration.  kdim and   *)
(* vdim default to embed_dim (true for all BART units), dropout to 0.0;    *)
(* the dropout rate is held in percent.  A module is in training mode      *)
(* when constructed.                                                       *)
(***************************************************************************)

(* A faulty variant of the constructor: the divisibility assert is missing.*)
NewSelfAttention_NoCheck(embed_dim, num_heads, encoder_decoder_attention) ==
    [ok |-> TRUE,
     unit |-> [embed_dim |-> embed_dim,
               num_heads |-> num_heads,
               head_dim  |-> embed_dim \div num_heads,
               encoder_decoder_attention |-> encoder_decoder_attention,
               attn_key  |-> IF encoder_decoder_attention THEN "encoder_decoder_attn" ELSE "self_attn",
               dropout   |-> 0,
               training  |-> TRUE]]

NewSelfAttention(embed_dim, num_heads, encoder_decoder_attention) ==
    LET head_dim == embed_dim \div num_heads IN
    IF head_dim * num_heads # embed_dim
    THEN [ok |-> FALSE, exc |-> "AssertionError", at |-> "embed_dim must be divisible by num_heads"]
    ELSE [ok |-> TRUE,
          unit |-> [embed_dim |-> embed_dim,
                    num_heads |-> num_heads,
                    head_dim  |-> head_dim,
                    encoder_decoder_attention |-> encoder_decoder_attention,
                    attn_key  |-> IF encoder_decoder_attention THEN "encoder_decoder_attn" ELSE "self_attn",
                    dropout   |-> 0,
                    training  |-> TRUE]]

(***************************************************************************)
(* WavLMAttention.__init__ and FlaxBigBirdSelfAttention.setup make the     *)
(* same check and raise ValueError.                                        *)
(***************************************************************************)
NewWavLMAttention(embed_dim, num_heads) ==
    LET head_dim == embed_dim \div num_heads IN
    IF head_dim * num_heads # embed_dim
    THEN [ok |-> FALSE, exc |-> "ValueError", at |-> "embed_dim must be divisible by num_heads"]
    ELSE [ok |-> TRUE, unit |-> [embed_dim |-> embed_dim, num_heads |-> num_heads, head_dim |-> head_dim]]

NewFlaxBigBirdSelfAttention(hidden_size, num_attention_heads) ==
    IF hidden_size % num_attention_heads # 0
    THEN [ok |-> FALSE, exc |-> "ValueError", at |-> "hidden_size has to be a multiple of num_attention_heads"]
    ELSE [ok |-> TRUE, unit |-> [embed_dim |-> hidden_size, num_heads |-> num_attention_heads,
                                 head_dim |-> hidden_size \div num_attention_heads]]

(***************************************************************************)
(* The learned linear maps (nn.Linear with bias).  The weights are fixed   *)
(* small integers, different for each map.                                 *)
(***************************************************************************)
q_weight(o, i) == IF o = i THEN 1 ELSE 0

q_bias(o) == 1

k_weight(o, i) == IF i <= o THEN 1 ELSE 0

k_bias(o) == 0

v_weight(o, i) == IF i >= o THEN 1 ELSE 0

v_bias(o) == o % 2

out_weight(o, i) == 1 + ((o + i) % 2)

out_bias(o) == 1

Linear(x, W(_, _), B(_)) ==
    LET E == x.sizes[3]
        F(t, b, o) == SumTo([i \in 1..E |-> W(o, i) * At3(x, t, b, i)], E) + B(o)
    IN  Build3(x.sizes[1], x.sizes[2], E, F)

q_proj(x) == Linear(x, q_weight, q_bias)

k_proj(x) == Linear(x, k_weight, k_bias)

v_proj(x) == Linear(x, v_weight, v_bias)

out_proj(x) ==
    LET E == x.sizes[3]
        F(t, b, o) == FAdd(FSumTo([i \in 1..E |-> FScale(out_weight(o, i), At3(x, t, b, i))], E), <<out_bias(o), 1>>)
    IN  Build3(x.sizes[1], x.sizes[2], E, F)

(***************************************************************************)
(* SelfAttention._shape: (seq, bsz, embed) -> (bsz * heads, seq, head_dim) *)
(***************************************************************************)
Shape(unit, tensor, dim_0, bsz) ==
    Bind(View(Contiguous(tensor), <<dim_0, bsz * unit.num_heads, unit.head_dim>>), LAMBDA v :
        IF IsNone(v) THEN None ELSE Some(Transpose01(Get(v))))

(***************************************************************************)
(* Results of a call: a value, or the exception that ended it together     *)
(* with the cache as the call left it.                                     *)
(***************************************************************************)
Raise(exc, at, past) == [ok |-> FALSE, exc |-> exc, at |-> at, past |-> past]

(***************************************************************************)
(* SelfAttention._cat_prev_key_padding_mask.  Masks have shape             *)
(* (bsz, seq_len); entries are 1 (padding) or 0.  torch.cat fails when the *)
(* batch sizes differ, torch.zeros when the filler length is negative.     *)
(***************************************************************************)

(* Faulty variants of _cat_prev_key_padding_mask: one puts the filler after*)
(* the supplied mask instead of before it, one drops the stored mask on a  *)
(* static_kv call.                                                         *)
CatPrevKeyPaddingMask_FillerLast(key_padding_mask, prev_key_padding_mask, batch_size, src_len, static_kv) ==
    IF ~IsNone(prev_key_padding_mask) /\ static_kv
    THEN [ok |-> TRUE, mask |-> prev_key_padding_mask]
    ELSE IF ~IsNone(prev_key_padding_mask) /\ ~IsNone(key_padding_mask)
    THEN IF CatOK(Get(prev_key_padding_mask), Get(key_padding_mask))
         THEN [ok |-> TRUE, mask |-> Some(Cat1of2(Get(prev_key_padding_mask), Get(key_padding_mask)))]
         ELSE [ok |-> FALSE, mask |-> None]
    ELSE IF ~IsNone(prev_key_padding_mask)
    THEN LET n == src_len - Get(prev_key_padding_mask).sizes[2] IN
         IF n >= 0 /\ CatOK(Get(prev_key_padding_mask), Zeros2(batch_size, n))
         THEN [ok |-> TRUE, mask |-> Some(Cat1of2(Get(prev_key_padding_mask), Zeros2(batch_size, n)))]
         ELSE [ok |-> FALSE, mask |-> None]
    ELSE IF ~IsNone(key_padding_mask)
    THEN LET n == src_len - Get(key_padding_mask).sizes[2] IN
         IF n >= 0 /\ CatOK(Zeros2(batch_size, n), Get(key_padding_mask))
         THEN [ok |-> TRUE, mask |-> Some(Cat1of2(Get(key_padding_mask), Zeros2(batch_size, n)))]
         ELSE [ok |-> FALSE, mask |-> None]
    ELSE [ok |-> TRUE, mask |-> prev_key_padding_mask]

CatPrevKeyPaddingMask_DropStatic(key_padding_mask, prev_key_padding_mask, batch_size, src_len, static_kv) ==
    IF ~IsNone(prev_key_padding_mask) /\ static_kv
    THEN [ok |-> TRUE, mask |-> None]
    ELSE IF ~IsNone(prev_key_padding_mask) /\ ~IsNone(key_padding_mask)
    THEN IF CatOK(Get(prev_key_padding_mask), Get(key_padding_mask))
         THEN [ok |-> TRUE, mask |-> Some(Cat1of2(Get(prev_key_padding_mask), Get(key_padding_mask)))]
         ELSE [ok |-> FALSE, mask |-> None]
    ELSE IF ~IsNone(prev_key_padding_mask)
    THEN LET n == src_len - Get(prev_key_padding_mask).sizes[2] IN
         IF n >= 0 /\ CatOK(Get(prev_key_padding_mask), Zeros2(batch_size, n))
         THEN [ok |-> TRUE, mask |-> Some(Cat1of2(Get(prev_key_padding_mask), Zeros2(batch_size, n)))]
         ELSE [ok |-> FALSE, mask |-> None]
    ELSE IF ~IsNone(key_padding_mask)
    THEN LET n == src_len - Get(key_padding_mask).sizes[2] IN
         IF n >= 0 /\ CatOK(Zeros2(batch_size, n), Get(key_padding_mask))
         THEN [ok |-> TRUE, mask |-> Some(Cat1of2(Zeros2(batch_size, n), Get(key_padding_mask)))]
         ELSE [ok |-> FALSE, mask |-> None]
    ELSE [ok |-> TRUE, mask |-> prev_key_padding_mask]

CatPrevKeyPaddingMask(key_padding_mask, prev_key_padding_mask, batch_size, src_len, static_kv) ==
    IF ~IsNone(prev_key_padding_mask) /\ static_kv
    THEN [ok |-> TRUE, mask |-> prev_key_padding_mask]
    ELSE IF ~IsNone(prev_key_padding_mask) /\ ~IsNone(key_padding_mask)
    THEN IF CatOK(Get(prev_key_padding_mask), Get(key_padding_mask))
         THEN [ok |-> TRUE, mask |-> Some(Cat1of2(Get(prev_key_padding_mask), Get(key_padding_mask)))]
         ELSE [ok |-> FALSE, mask |-> None]
    ELSE IF ~IsNone(prev_key_padding_mask)
    THEN LET n == src_len - Get(prev_key_padding_mask).sizes[2] IN
         IF n >= 0 /\ CatOK(Get(prev_key_padding_mask), Zeros2(batch_size, n))
         THEN [ok |-> TRUE, mask |-> Some(Cat1of2(Get(prev_key_padding_mask), Zeros2(batch_size, n)))]
         ELSE [ok |-> FALSE, mask |-> None]
    ELSE IF ~IsNone(key_padding_mask)
    THEN LET n == src_len - Get(key_padding_mask).sizes[2] IN
         IF n >= 0 /\ CatOK(Zeros2(batch_size, n), Get(key_padding_mask))
         THEN [ok |-> TRUE, mask |-> Some(Cat1of2(Zeros2(batch_size, n), Get(key_padding_mask)))]
         ELSE [ok |-> FALSE, mask |-> None]
    ELSE [ok |-> TRUE, mask |-> prev_key_padding_mask]

(***************************************************************************)
(* SelfAttention._update_layer_cache: layer_cache[self.attn_key] = entry   *)
(***************************************************************************)

(* A faulty variant of _update_layer_cache: every unit writes to the       *)
(* self_attn slot.                                                         *)
UpdateLayerCache_OneSlot(unit, layer_cache, new_entry) ==
    [a \in (DOMAIN layer_cache) \cup {"self_attn"} |-> IF a = "self_attn" THEN new_entry ELSE layer_cache[a]]

UpdateLayerCache(unit, layer_cache, new_entry) ==
    [a \in (DOMAIN layer_cache) \cup {unit.attn_key} |-> IF a = unit.attn_key THEN new_entry ELSE layer_cache[a]]

(***************************************************************************)
(* A saved state is a dict with a subset of the keys prev_key, prev_value, *)
(* prev_key_padding_mask.  Stored keys/values have shape                   *)
(* (bsz, num_heads, seq_len, head_dim).                                    *)
(***************************************************************************)
EmptyDict == [a \in {} |-> 0]

SetItem(d, key, val) == [a \in (DOMAIN d) \cup {key} |-> IF a = key THEN val ELSE d[a]]

(* A faulty variant of the write-back: keys and values are exchanged.      *)
WriteSavedState_KeysOnly(unit, saved_state, k, v, key_padding_mask, bsz) ==
    SetItem(SetItem(saved_state,
        "prev_key", Get(View(k, <<bsz, unit.num_heads, -1, unit.head_dim>>))),
        "prev_key_padding_mask", key_padding_mask)

WriteSavedState_Swapped(unit, saved_state, k, v, key_padding_mask, bsz) ==
    SetItem(SetItem(SetItem(saved_state,
        "prev_key", Get(View(v, <<bsz, unit.num_heads, -1, unit.head_dim>>))),
        "prev_value", Get(View(k, <<bsz, unit.num_heads, -1, unit.head_dim>>))),
        "prev_key_padding_mask", key_padding_mask)

WriteSavedState(unit, saved_state, k, v, key_padding_mask, bsz) ==
    SetItem(SetItem(SetItem(saved_state,
        "prev_key", Get(View(k, <<bsz, unit.num_heads, -1, unit.head_dim>>))),
        "prev_value", Get(View(v, <<bsz, unit.num_heads, -1, unit.head_dim>>))),
        "prev_key_padding_mask", key_padding_mask)

(***************************************************************************)
(* k = prev_key if static_kv else torch.cat([prev_key, k], dim=1), and the *)
(* same for v: the keys (values) a call scores against, given the saved    *)
(* tensor viewed as (bsz * heads, -1, head_dim) and the new projection.    *)
(***************************************************************************)

(* A faulty variant: the new projection replaces the saved tensor instead of*)
(* being appended to it.                                                   *)
UseSaved_Replace(has_prev, prev, new, static_kv) ==
    IF ~has_prev THEN new
    ELSE IF static_kv THEN prev
    ELSE new

UseSaved(has_prev, prev, new, static_kv) ==
    IF ~has_prev THEN new
    ELSE IF static_kv THEN prev
    ELSE Some(Cat1of3(Get(prev), Get(new)))

(***************************************************************************)
(* SelfAttention._use_and_update_saved_state.  k0 and v0 are optional      *)
(* tensors of shape (bsz * heads, seq, head_dim).                          *)
(***************************************************************************)
UseAndUpdateSavedState(unit, k0, v0, saved_state, key_padding_mask, incremental_state, static_kv, bsz) ==
    LET bh == bsz * unit.num_heads
        hasK == "prev_key" \in DOMAIN saved_state
        hasV == "prev_value" \in DOMAIN saved_state
        prev_key_padding_mask == IF "prev_key_padding_mask" \in DOMAIN saved_state
                                 THEN saved_state["prev_key_padding_mask"] ELSE None
    IN
    Bind(IF hasK THEN View(saved_state["prev_key"], <<bh, -1, unit.head_dim>>) ELSE None, LAMBDA prev_key :
    Bind(IF hasV THEN View(saved_state["prev_value"], <<bh, -1, unit.head_dim>>) ELSE None, LAMBDA prev_value :
        IF hasK /\ IsNone(prev_key)
        THEN Raise("RuntimeError", "prev_key.view", incremental_state)
        ELSE IF hasK /\ ~static_kv /\ IsNone(k0)
        THEN Raise("AssertionError", "k is not None", incremental_state)
        ELSE IF hasK /\ ~static_kv /\ ~CatOK(Get(prev_key), Get(k0))
        THEN Raise("RuntimeError", "cat prev_key", incremental_state)
        ELSE IF hasV /\ IsNone(prev_value)
        THEN Raise("RuntimeError", "prev_value.view", incremental_state)
        ELSE IF hasV /\ ~static_kv /\ IsNone(v0)
        THEN Raise("AssertionError", "v is not None", incremental_state)
        ELSE IF hasV /\ ~static_kv /\ ~CatOK(Get(prev_value), Get(v0))
        THEN Raise("RuntimeError", "cat prev_value", incremental_state)
        ELSE
    Bind(UseSaved(hasK, prev_key, k0, static_kv), LAMBDA k :
    Bind(UseSaved(hasV, prev_value, v0, static_kv), LAMBDA v :
        IF IsNone(k) \/ IsNone(v)
        THEN Raise("AssertionError", "k is not None and v is not None", incremental_state)
        ELSE
    Bind(CatPrevKeyPaddingMask(key_padding_mask, prev_key_padding_mask, bsz, Get(k).sizes[2], static_kv), LAMBDA m :
        IF ~m.ok
        THEN Raise("RuntimeError", "cat key_padding_mask", incremental_state)
        ELSE [ok |-> TRUE, k |-> k, v |-> v, key_padding_mask |-> m.mask,
              past |-> UpdateLayerCache(unit, incremental_state,
                           WriteSavedState(unit, saved_state, Get(k), Get(v), m.mask, bsz))])))))

(***************************************************************************)
(* The numeric core of SelfAttention.forward: logits, masks, softmax and   *)
(* the weighted sum.  q: (bh, tgt_len, head_dim); k, v: (bh, src_len,      *)
(* head_dim); attn_mask: optional (a, b) tensor of logits; mask: optional  *)
(* (bsz, src_len) tensor of 0/1.                                           *)
(***************************************************************************)

(* A faulty variant of the logits: the padding mask is not applied.        *)
Logit_NoFill(unit, q, k, key_padding_mask, attn_mask, i, t, s) ==
    LET hd  == q.sizes[3]
        dot == Fin(SumTo([d \in 1..hd |-> At3(q, i, t, d) * At3(k, i, s, d)], hd))
    IN  IF IsNone(attn_mask) THEN dot
        ELSE LAdd(dot, At2(Get(attn_mask),
                           IF Get(attn_mask).sizes[1] = 1 THEN 1 ELSE t,
                           IF Get(attn_mask).sizes[2] = 1 THEN 1 ELSE s))

(* A faulty variant of the logits: the additive mask is not applied.       *)
Logit_NoBias(unit, q, k, key_padding_mask, attn_mask, i, t, s) ==
    LET hd  == q.sizes[3]
        dot == Fin(SumTo([d \in 1..hd |-> At3(q, i, t, d) * At3(k, i, s, d)], hd))
    IN  IF ~IsNone(key_padding_mask) /\ At2(Get(key_padding_mask), ((i - 1) \div unit.num_heads) + 1, s) # 0
        THEN NegInf
        ELSE dot

Logit(unit, q, k, key_padding_mask, attn_mask, i, t, s) ==
    LET hd  == q.sizes[3]
        dot == Fin(SumTo([d \in 1..hd |-> At3(q, i, t, d) * At3(k, i, s, d)], hd))
    IN  IF ~IsNone(key_padding_mask) /\ At2(Get(key_padding_mask), ((i - 1) \div unit.num_heads) + 1, s) # 0
        THEN NegInf
        ELSE IF IsNone(attn_mask) THEN dot
        ELSE LAdd(dot, At2(Get(attn_mask),
                           IF Get(attn_mask).sizes[1] = 1 THEN 1 ELSE t,
                           IF Get(attn_mask).sizes[2] = 1 THEN 1 ELSE s))

RowSums(e) == Build2(e.sizes[1], e.sizes[2], LAMBDA i, t : SumTo([s \in 1..e.sizes[3] |-> At3(e, i, t, s)], e.sizes[3]))

Normalise(e, z) == Build3(e.sizes[1], e.sizes[2], e.sizes[3], LAMBDA i, t, s : Frac(At3(e, i, t, s), At2(z, i, t)))

SoftmaxOf(e) == Normalise(e, RowSums(e))

Softmax(unit, q, k, key_padding_mask, attn_mask) ==
    SoftmaxOf(Build3(q.sizes[1], q.sizes[2], k.sizes[2],
                     LAMBDA i, t, s : ExpW(Logit(unit, q, k, key_padding_mask, attn_mask, i, t, s))))

Bmm(attn_probs, v) ==
    Build3(attn_probs.sizes[1], attn_probs.sizes[2], v.sizes[3],
           LAMBDA i, t, d : FSumTo([s \in 1..v.sizes[2] |-> FScale(At3(v, i, s, d), At3(attn_probs, i, t, s))], v.sizes[2]))

(***************************************************************************)
(* The tensor that k_proj and v_proj are applied to: the key for           *)
(* encoder-decoder attention (None gives k = v = None), the query for      *)
(* self-attention.  v is projected from key as well; value is only         *)
(* asserted to be None when key is.                                        *)
(***************************************************************************)

(* A faulty variant: encoder-decoder attention falls back to the query when*)
(* no key is given.                                                        *)
KVSource_Fallback(unit, query, key) ==
    IF unit.encoder_decoder_attention /\ ~IsNone(key) THEN key ELSE Some(query)

KVSource(unit, query, key) == IF unit.encoder_decoder_attention THEN key ELSE Some(query)

(***************************************************************************)
(* F.dropout(attn_weights_float, p=self.dropout, training=self.training).  *)
(* noise is the draw of the random generator: a pattern of 0/1 that says,  *)
(* position by position, which weights are kept.  With p = 0 or outside    *)
(* training the weights pass unchanged; otherwise the dropped ones become  *)
(* 0 and the kept ones are scaled by 1 / (1 - p).                          *)
(***************************************************************************)
Kept == <<1>>

KeepAt(noise, i, t, s) == noise[((i + t + s) % Len(noise)) + 1]

(* A faulty variant of dropout: weights are dropped whatever the rate.     *)
Dropout_Always(unit, attn_probs, noise) ==
    Build3(attn_probs.sizes[1], attn_probs.sizes[2], attn_probs.sizes[3], LAMBDA i, t, s :
        IF KeepAt(noise, i, t, s) = 1 THEN At3(attn_probs, i, t, s) ELSE <<0, 1>>)

Dropout(unit, attn_probs, noise) ==
    IF ~unit.training \/ unit.dropout = 0 THEN attn_probs
    ELSE Build3(attn_probs.sizes[1], attn_probs.sizes[2], attn_probs.sizes[3], LAMBDA i, t, s :
            IF KeepAt(noise, i, t, s) # 1 THEN <<0, 1>>
            ELSE IF At3(attn_probs, i, t, s) = NaN THEN NaN
            ELSE Frac(100 * At3(attn_probs, i, t, s)[1], (100 - unit.dropout) * At3(attn_probs, i, t, s)[2]))

(***************************************************************************)
(* SelfAttention.forward, from the scores on: the mask checks, softmax,    *)
(* weighted sum and output projection, given q, the keys and values to     *)
(* score against and the effective key padding mask.                       *)
(***************************************************************************)
AttendDrop(unit, q, k, v, mask, attn_mask, tgt_len, bsz, cache, noise) ==
    IF IsNone(k)
    THEN Raise("AssertionError", "k is not None", cache)
    ELSE IF ~IsNone(mask) /\ (Get(mask).sizes[1] # bsz \/ Get(mask).sizes[2] # Get(k).sizes[2])
    THEN Raise("AssertionError", "key_padding_mask.size()[:2] == (bsz, src_len)", cache)
    ELSE IF Get(k).sizes[1] # q.sizes[1] \/ Get(k).sizes[3] # q.sizes[3]
    THEN Raise("RuntimeError", "bmm(q, k)", cache)
    ELSE IF ~IsNone(attn_mask) /\ ~(Get(attn_mask).sizes[1] \in {1, tgt_len} /\ Get(attn_mask).sizes[2] \in {1, Get(k).sizes[2]})
    THEN Raise("RuntimeError", "attn_weights += attn_mask", cache)
    ELSE IF IsNone(v)
    THEN Raise("AssertionError", "v is not None", cache)
    ELSE IF Get(v).sizes[1] # q.sizes[1] \/ Get(v).sizes[2] # Get(k).sizes[2]
    THEN Raise("RuntimeError", "bmm(attn_probs, v)", cache)
    ELSE
    Bind(Softmax(unit, q, Get(k), mask, attn_mask), LAMBDA attn_probs :
        [ok |-> TRUE,
         attn_output  |-> out_proj(Get(View(Contiguous(Transpose01(Bmm(Dropout(unit, attn_probs, noise), Get(v)))),
                                            <<tgt_len, bsz, unit.embed_dim>>))),
         attn_weights |-> Get(View(attn_probs, <<bsz, unit.num_heads, tgt_len, Get(k).sizes[2]>>)),
         past |-> cache])

(* the same with a draw that keeps every weight                            *)
Attend(unit, q, k, v, mask, attn_mask, tgt_len, bsz, cache) ==
    AttendDrop(unit, q, k, v, mask, attn_mask, tgt_len, bsz, cache, Kept)

(***************************************************************************)
(* SelfAttention.forward.  query: (tgt_len, bsz, embed_dim); key, value,   *)
(* key_padding_mask, past, attn_mask are optional.  The result carries the *)
(* cache as the call leaves it, also when the call raises.                 *)
(***************************************************************************)
ForwardDrop(unit, query, key, value, key_padding_mask, past, static_kv, attn_mask, noise) ==
    LET tgt_len == query.sizes[1]
        bsz == query.sizes[2]
        embed_dim == query.sizes[3]
        saved_state == IF IsNone(past) THEN None
                       ELSE Some(IF unit.attn_key \in DOMAIN Get(past) THEN Get(past)[unit.attn_key] ELSE EmptyDict)
        reuse == ~IsNone(saved_state) /\ "prev_key" \in DOMAIN Get(saved_state) /\ static_kv
        key1 == IF reuse THEN None ELSE key
        value1 == IF reuse THEN None ELSE value
        src == KVSource(unit, query, key1)
    IN  IF embed_dim # unit.embed_dim
        THEN Raise("AssertionError", "embed_dim == self.embed_dim", past)
        ELSE IF reuse /\ ~unit.encoder_decoder_attention
        THEN Raise("AssertionError", "self.encoder_decoder_attention", past)
        ELSE IF unit.encoder_decoder_attention /\ IsNone(key1) /\ ~IsNone(value1)
        THEN Raise("AssertionError", "value is None", past)
        ELSE IF ~IsNone(src) /\ Get(src).sizes[3] # unit.embed_dim
        THEN Raise("RuntimeError", "k_proj", past)
        ELSE
    Bind(Get(Shape(unit, q_proj(query), tgt_len, bsz)), LAMBDA q :
    Bind(IF IsNone(src) THEN None ELSE Shape(unit, k_proj(Get(src)), -1, bsz), LAMBDA k0 :
    Bind(IF IsNone(src) THEN None ELSE Shape(unit, v_proj(Get(src)), -1, bsz), LAMBDA v0 :
        IF ~IsNone(src) /\ IsNone(k0)
        THEN Raise("RuntimeError", "_shape", past)
        ELSE IF IsNone(saved_state)
        THEN AttendDrop(unit, q, k0, v0, key_padding_mask, attn_mask, tgt_len, bsz, past, noise)
        ELSE
    Bind(UseAndUpdateSavedState(unit, k0, v0, Get(saved_state), key_padding_mask, Get(past), static_kv, bsz), LAMBDA u :
        IF ~u.ok
        THEN [u EXCEPT !.past = Some(u.past)]
        ELSE AttendDrop(unit, q, u.k, u.v, u.key_padding_mask, attn_mask, tgt_len, bsz, Some(u.past), noise)))))

(* forward with a draw that keeps every weight: forward on a unit whose    *)
(* dropout rate is 0                                                       *)
Forward(unit, query, key, value, key_padding_mask, past, static_kv, attn_mask) ==
    ForwardDrop(unit, query, key, value, key_padding_mask, past, static_kv, attn_mask, Kept)

(***************************************************************************)
(* The callers' inputs.  A token sequence (one token per time step) is     *)
(* embedded into a (seq, bsz, embed_dim) tensor whose batch rows differ;   *)
(* a padding pattern into a (bsz, seq) mask whose first row carries the    *)
(* pattern and whose other rows have no padding.                           *)
(***************************************************************************)
MaxSrcLen == 2

BatchSizes == {2}

Seeds == {<<0>>, <<1>>, <<0, 1>>}

Untracked == <<-1>>

EncSeeds == {<<1>>, <<1, 0>>}

Input(seed, bsize, embed_dim) == Build3(Len(seed), bsize, embed_dim, LAMBDA t, b, e : (seed[t] + b + e) % 2)

PadMask(bits, bsize) == Build2(bsize, Len(bits), LAMBDA b, s : IF b = 1 THEN bits[s] ELSE 0)

Bits(n) == [1..n -> {0, 1}]

(***************************************************************************)
(* State: the module under exercise (an attention unit or a decoder        *)
(* layer); the batch size of the last call, which is the batch size of the *)
(* decoding loop that owns the cache where the loop is bound to one; the   *)
(* layer cache (a dict keyed by attention site); the tokens fed by the     *)
(* static_kv = false calls that wrote to the cache since it was empty      *)
(* (Untracked once a static_kv call wrote to it); and the last call with   *)
(* its inputs, the cache it was given and its result.                      *)
(***************************************************************************)
VARIABLES module, bsz, past, fed, call

vars == <<module, bsz, past, fed, call>>

Classes == {"SelfAttention", "WavLMAttention", "FlaxBigBirdSelfAttention"}

Configs == {<<2, 1>>, <<2, 2>>, <<3, 2>>, <<10, 3>>}

New(cls, embed_dim, num_heads, encoder_decoder_attention) ==
    IF cls = "SelfAttention" THEN NewSelfAttention(embed_dim, num_heads, encoder_decoder_attention)
    ELSE IF cls = "WavLMAttention" THEN NewWavLMAttention(embed_dim, num_heads)
    ELSE NewFlaxBigBirdSelfAttention(embed_dim, num_heads)

Init ==
    /\ module = [cls |-> "none"]
    /\ bsz \in BatchSizes
    /\ past = EmptyDict
    /\ fed = <<>>
    /\ call = [op |-> "init"]

(* the model assembly code constructs an attention unit *)
Construct ==
    /\ module.cls = "none"
    /\ \E cls \in Classes, c \in Configs, eda \in BOOLEAN :
         \E r \in {New(cls, c[1], c[2], eda)} :
         /\ cls # "SelfAttention" => ~eda
         /\ module' = IF r.ok THEN [cls |-> cls, unit |-> r.unit] ELSE [cls |-> "failed"]
         /\ call' = [op |-> "new", cls |-> cls, embed_dim |-> c[1], num_heads |-> c[2], res |-> r]
    /\ UNCHANGED <<bsz, past, fed>>

Unit == module.unit

CachedLen(cache, attn_key) ==
    IF attn_key \in DOMAIN cache /\ "prev_key" \in DOMAIN cache[attn_key]
    THEN cache[attn_key]["prev_key"].sizes[3] ELSE 0

KeyInputs(query) ==
    IF Unit.encoder_decoder_attention
    THEN {None} \cup {Some(Input(s, bsz, Unit.embed_dim)) : s \in EncSeeds}
    ELSE {None, Some(query)}

SrcLenOf(query, key) ==
    IF Unit.encoder_decoder_attention
    THEN (IF IsNone(key) THEN 0 ELSE Get(key).sizes[1])
    ELSE query.sizes[1]

(* key positions a call with this cache adds to it, and the number of key  *)
(* positions it scores against beyond those the cache held before         *)
GrowthOf(query, key, cache, static_kv) ==
    IF static_kv /\ CachedLen(cache, Unit.attn_key) > 0 THEN 0 ELSE SrcLenOf(query, key)

MaskLenOf(query, key, cache, static_kv) ==
    IF static_kv /\ CachedLen(cache, Unit.attn_key) > 0
    THEN CachedLen(cache, Unit.attn_key)
    ELSE SrcLenOf(query, key)

MaskInputsFor(n, bsize) == {None} \cup (IF n = 0 THEN {} ELSE {Some(PadMask(m, bsize)) : m \in Bits(n)})

MaskInputs(n) == MaskInputsFor(n, bsz)

(* a call is pending while its caller has not yet taken its result *)
Pending == call.op \in {"forward", "layer", "decoder", "encoder", "caption"}

(***************************************************************************)
(* The objects a call of forward can reach besides the cache, as the call  *)
(* leaves them.  forward and its helpers write in place in three places:   *)
(* `attn_weights += attn_mask` (into the product of torch.bmm, a tensor of *)
(* the call's own), the item assignments of saved_state and                *)
(* `layer_cache[self.attn_key] = new_entry` (both into the cache).  They   *)
(* assign no attribute of self, and the tensors stored in the cache are    *)
(* made by the call (a projection, a torch.cat).                           *)
(***************************************************************************)

(* A faulty variant: the effective key padding mask is written into the    *)
(* caller's mask.                                                          *)
Effects_MaskInPlace(unit, query, key, value, key_padding_mask, attn_mask, res) ==
    [self |-> unit, query |-> query, key |-> key, value |-> value,
     key_padding_mask |-> IF res.ok /\ ~IsNone(res.past) /\ ~IsNone(key_padding_mask)
                          THEN Get(res.past)[unit.attn_key]["prev_key_padding_mask"]
                          ELSE key_padding_mask,
     attn_mask |-> attn_mask]

Effects(unit, query, key, value, key_padding_mask, attn_mask, res) ==
    [self |-> unit, query |-> query, key |-> key, value |-> value,
     key_padding_mask |-> key_padding_mask, attn_mask |-> attn_mask]

DoForward(seed, query, key, key_padding_mask, cache, static_kv, attn_mask) ==
    \E res \in {Forward(Unit, query, key, key, key_padding_mask, cache, static_kv, attn_mask)} :
    \E after \in {Effects(Unit, query, key, key, key_padding_mask, attn_mask, res)} :
        /\ call' = [op |-> "forward", query |-> query, key |-> key, value |-> key,
                    key_padding_mask |-> key_padding_mask, past |-> cache,
                    static_kv |-> static_kv, attn_mask |-> attn_mask, res |-> res,
                    self |-> Unit, after |-> after]
        /\ module' = [module EXCEPT !.unit = after.self]
        /\ past' = IF IsNone(cache) THEN past ELSE Get(res.past)
        /\ fed' = IF IsNone(cache) \/ Get(res.past) = Get(cache) THEN fed
                  ELSE IF static_kv \/ fed = Untracked THEN Untracked
                  ELSE fed \o seed
        /\ bsz' = query.sizes[2]

(* a decoding step: forward with the layer cache.  A self-attention unit  *)
(* is called as the decoder layer calls it (key = the query, static_kv    *)
(* left false); a cross-attention unit with any key and either static_kv. *)
ComputeCached ==
    /\ module.cls = "SelfAttention"
    /\ ~Pending
    /\ \E s \in Seeds, static_kv \in (IF Unit.encoder_decoder_attention THEN BOOLEAN ELSE {FALSE}) :
      \E query \in {Input(s, bsz, Unit.embed_dim)} :
      \E key \in (IF Unit.encoder_decoder_attention THEN KeyInputs(query) ELSE {Some(query)}) :
        /\ CachedLen(past, Unit.attn_key) + GrowthOf(query, key, past, static_kv) <= MaxSrcLen
        /\ \E m \in MaskInputs(MaskLenOf(query, key, past, static_kv)) :
              DoForward(s, query, key, m, Some(past), static_kv, None)

(* A faulty variant of the causal mask: nothing is masked.                 *)
FutureMask_Open(dim) == Build2(dim, dim, LAMBDA i, j : Fin(0))

FutureMask(dim) == Build2(dim, dim, LAMBDA i, j : IF j > i THEN NegInf ELSE Fin(0))

(* a full-sequence pass, made while no decoding is under way: forward     *)
(* without a cache                                                         *)
ComputeNoCache ==
    /\ module.cls = "SelfAttention"
    /\ ~Pending
    /\ past = EmptyDict
    /\ \E s \in Seeds, static_kv \in BOOLEAN :
      \E query \in {Input(s, bsz, Unit.embed_dim)} :
      \E key \in KeyInputs(query) :
        \E m \in MaskInputs(SrcLenOf(query, key)) :
          \E attn_mask \in {None} \cup (IF Unit.encoder_decoder_attention THEN {} ELSE {Some(FutureMask(Len(s)))}) :
              DoForward(s, query, key, m, None, static_kv, attn_mask)

(* the caller takes the result of the call and goes on *)
Resume ==
    /\ Pending
    /\ call' = [op |-> "idle"]
    /\ UNCHANGED <<module, bsz, past, fed>>

(* a new sequence begins: the caller starts from an empty layer cache *)
NewSequence ==
    /\ ~Pending
    /\ past # EmptyDict
    /\ past' = EmptyDict
    /\ fed' = <<>>
    /\ call' = [op |-> "new sequence"]
    /\ UNCHANGED <<module, bsz>>

Next == Construct \/ ComputeCached \/ ComputeNoCache \/ Resume \/ NewSequence

Spec == Init /\ [][Next]_vars

(***************************************************************************)
(*                    PROPERTIES OF THE ATTENTION UNIT                     *)
(*                                                                         *)
(* The properties read the last call from `call`: its arguments, the       *)
(* cache it was given (call.past) and what it returned or raised           *)
(* (call.res, whose past field is the cache after the call).               *)
(***************************************************************************)
IsForward == call.op = "forward"

EntryOf(cache) ==
    IF IsNone(cache) \/ Unit.attn_key \notin DOMAIN Get(cache) THEN EmptyDict ELSE Get(cache)[Unit.attn_key]

Populated(cache) == "prev_key" \in DOMAIN EntryOf(cache)

StoredLen(cache) == IF Populated(cache) THEN EntryOf(cache)["prev_key"].sizes[3] ELSE 0

StoredMask(cache) ==
    IF "prev_key_padding_mask" \in DOMAIN EntryOf(cache) THEN EntryOf(cache)["prev_key_padding_mask"] ELSE None

Heads(t) == Get(View(t, <<bsz * Unit.num_heads, -1, Unit.head_dim>>))

QueryOf(c) == Get(Shape(Unit, q_proj(c.query), c.query.sizes[1], bsz))

SameResult(r1, r2) ==
    /\ r1.ok = r2.ok
    /\ r1.ok => r1.attn_output = r2.attn_output /\ r1.attn_weights = r2.attn_weights

(* C1: on a cross-attention unit whose cache entry is populated, a call    *)
(* with static_kv leaves the stored keys and values exactly as they were,  *)
(* whatever key it is given, and what it returns is what scoring the query *)
(* against the stored keys and values returns.                             *)
C1_StaticKVFrozen ==
    (IsForward /\ Unit.encoder_decoder_attention /\ call.static_kv /\ Populated(call.past)) =>
        /\ EntryOf(call.res.past)["prev_key"] = EntryOf(call.past)["prev_key"]
        /\ EntryOf(call.res.past)["prev_value"] = EntryOf(call.past)["prev_value"]
        /\ call.res.ok =>
              /\ call.res.attn_weights.sizes[4] = StoredLen(call.past)
              /\ SameResult(call.res,
                            Attend(Unit, QueryOf(call),
                                   Some(Heads(EntryOf(call.past)["prev_key"])),
                                   Some(Heads(EntryOf(call.past)["prev_value"])),
                                   StoredMask(call.res.past), call.attn_mask,
                                   call.query.sizes[1], bsz, Get(call.res.past)))

C1_Witness ==
    /\ IsForward /\ Unit.encoder_decoder_attention /\ call.static_kv /\ Populated(call.past)
    /\ ~IsNone(call.key) /\ call.res.ok
    /\ Get(call.key).sizes[1] # StoredLen(call.past)
    /\ k_proj(Get(call.key)) # k_proj(call.query)

ProjectedLen(c) == IF Unit.encoder_decoder_attention THEN Get(c.key).sizes[1] ELSE c.query.sizes[1]

(* C2 as stated: a successful call with a cache and static_kv false grows  *)
(* the cached length by the query length.                                  *)
C2_GrowsByQueryLen ==
    (IsForward /\ ~IsNone(call.past) /\ ~call.static_kv /\ call.res.ok) =>
        StoredLen(call.res.past) = StoredLen(call.past) + call.query.sizes[1]

(* C2: a successful call with a cache and static_kv false appends the keys *)
(* and values it projected, so the cached length grows by the number of    *)
(* projected positions: the query length on a self-attention unit, the key *)
(* length on a cross-attention unit.  On a self-attention unit fed only    *)
(* such calls since the cache was empty, the cached length is the sum of   *)
(* the query lengths.                                                      *)
C2_GrowsByProjectedLen ==
    /\ (IsForward /\ ~IsNone(call.past) /\ ~call.static_kv /\ call.res.ok) =>
          /\ StoredLen(call.res.past) = StoredLen(call.past) + ProjectedLen(call)
          /\ Populated(call.past) =>
                \A i \in 1..(bsz * Unit.num_heads), s \in 1..StoredLen(call.past), d \in 1..Unit.head_dim :
                    /\ At3(Heads(EntryOf(call.res.past)["prev_key"]), i, s, d)
                         = At3(Heads(EntryOf(call.past)["prev_key"]), i, s, d)
                    /\ At3(Heads(EntryOf(call.res.past)["prev_value"]), i, s, d)
                         = At3(Heads(EntryOf(call.past)["prev_value"]), i, s, d)
    /\ (module.cls = "SelfAttention" /\ ~Unit.encoder_decoder_attention /\ fed # Untracked) =>
          StoredLen(Some(past)) = Len(fed)

C2_Witness ==
    /\ IsForward /\ ~IsNone(call.past) /\ ~call.static_kv /\ call.res.ok
    /\ Unit.encoder_decoder_attention /\ Populated(call.past)
    /\ Get(call.key).sizes[1] # call.query.sizes[1]
    /\ StoredLen(call.res.past) = StoredLen(call.past) + Get(call.key).sizes[1]

ExtendMask(mask, n) == IF IsNone(mask) THEN None ELSE Some(Cat1of2(Get(mask), Zeros2(bsz, n)))

FullPass(tokens, mask) ==
    Forward(Unit, Input(tokens, bsz, Unit.embed_dim), None, None, mask, None, FALSE, Some(FutureMask(Len(tokens))))

(* C4: on a self-attention unit, the context vector a cached decoding step *)
(* returns for its last query position is the context vector that one      *)
(* pass without a cache, with the causal mask, over the whole sequence fed *)
(* so far (and over any longer sequence that starts with it) returns at    *)
(* that position.                                                          *)
C4_IncrementalMatchesFull ==
    (IsForward /\ ~Unit.encoder_decoder_attention /\ ~IsNone(call.past) /\ ~call.static_kv
       /\ call.res.ok /\ fed # Untracked) =>
        \A ext \in {<<>>, <<0>>, <<1>>} :
            Bind(FullPass(fed \o ext, ExtendMask(StoredMask(call.res.past), Len(ext))), LAMBDA full :
                /\ full.ok
                /\ \A b \in 1..bsz, e \in 1..Unit.embed_dim :
                      At3(full.attn_output, Len(fed), b, e)
                        = At3(call.res.attn_output, call.query.sizes[1], b, e))

C4_Witness ==
    /\ IsForward /\ ~Unit.encoder_decoder_attention /\ ~IsNone(call.past) /\ ~call.static_kv
    /\ call.res.ok /\ fed # Untracked
    /\ Len(fed) = MaxSrcLen /\ call.query.sizes[1] = 1 /\ StoredLen(call.past) = Len(fed) - 1
    /\ fed[1] # fed[2]
    /\ IsNone(StoredMask(call.res.past))
    /\ At3(FullPass(fed, None).attn_output, Len(fed), 1, 1) = At3(call.res.attn_output, 1, 1, 1)
    /\ At3(FullPass(fed, None).attn_output, 1, 1, 1) # At3(call.res.attn_output, 1, 1, 1)

(* C5: a call with static_kv, key = None and value = None on a populated   *)
(* cache returns the same output and weights, and leaves the same cache,   *)
(* as the call with the key supplied that populated that cache.            *)
C5_StaticReuseSameResult ==
    (IsForward /\ Unit.encoder_decoder_attention /\ call.static_kv /\ IsNone(call.key)
       /\ Populated(call.past) /\ call.res.ok) =>
        \A key \in KeyInputs(call.query) \ {None} :
            Bind(Forward(Unit, call.query, key, key, call.key_padding_mask, Some(EmptyDict), TRUE, call.attn_mask),
                 LAMBDA first :
                    (first.ok /\ first.past = call.past) =>
                        SameResult(first, call.res) /\ call.res.past = first.past)

C5_Witness ==
    /\ IsForward /\ Unit.encoder_decoder_attention /\ call.static_kv /\ IsNone(call.key)
    /\ Populated(call.past) /\ call.res.ok
    /\ ~IsNone(StoredMask(call.past))
    /\ \E b \in 1..bsz, s \in 1..StoredLen(call.past) : At2(Get(StoredMask(call.past)), b, s) = 1
    /\ \E key \in KeyInputs(call.query) \ {None} :
          Bind(Forward(Unit, call.query, key, key, call.key_padding_mask, Some(EmptyDict), TRUE, call.attn_mask),
               LAMBDA first : first.ok /\ first.past = call.past /\ SameResult(first, call.res))

(* C6: when a call grows the cache, the padding mask stored with it (the   *)
(* one the call scored with) has one flag per cached key position: the     *)
(* flags of the earlier positions are the stored ones, the flags of the    *)
(* new positions are the supplied ones, and a position for which no flag   *)
(* was supplied is not padding.                                            *)
C6_MaskCoversCache ==
    (IsForward /\ ~IsNone(call.past) /\ call.res.ok /\ StoredLen(call.res.past) > StoredLen(call.past)) =>
        /\ call.res.attn_weights.sizes[4] = StoredLen(call.res.past)
        /\ IsNone(StoredMask(call.res.past)) => IsNone(StoredMask(call.past)) /\ IsNone(call.key_padding_mask)
        /\ ~IsNone(StoredMask(call.res.past)) =>
              /\ Get(StoredMask(call.res.past)).sizes = <<bsz, StoredLen(call.res.past)>>
              /\ \A b \in 1..bsz, s \in 1..StoredLen(call.res.past) :
                    At2(Get(StoredMask(call.res.past)), b, s) =
                        IF s <= StoredLen(call.past)
                        THEN IF IsNone(StoredMask(call.past)) THEN 0 ELSE At2(Get(StoredMask(call.past)), b, s)
                        ELSE IF IsNone(call.key_padding_mask) THEN 0
                             ELSE At2(Get(call.key_padding_mask), b, s - StoredLen(call.past))

C6_Witness ==
    /\ IsForward /\ ~IsNone(call.past) /\ call.res.ok
    /\ Populated(call.past) /\ StoredLen(call.res.past) > StoredLen(call.past)
    /\ IsNone(StoredMask(call.past)) /\ ~IsNone(call.key_padding_mask)
    /\ At2(Get(call.key_padding_mask), 1, 1) = 1
    /\ At2(Get(StoredMask(call.res.past)), 1, StoredLen(call.past) + 1) = 1
    /\ At2(Get(StoredMask(call.res.past)), 1, 1) = 0

EffectiveMask(c) == IF IsNone(c.past) THEN c.key_padding_mask ELSE StoredMask(c.res.past)

Padded(c, b, s) == ~IsNone(EffectiveMask(c)) /\ At2(Get(EffectiveMask(c)), b, s) # 0

Excluded(c, b, t, s) ==
    \/ Padded(c, b, s)
    \/ ~IsNone(c.attn_mask) /\ At2(Get(c.attn_mask), t, s).inf

C8_StaticNoSourceFails ==
    (IsForward /\ call.static_kv /\ IsNone(call.key) /\ IsNone(call.value) /\ ~Populated(call.past)) =>
        ~call.res.ok

(* C8: on a cross-attention unit, a call with static_kv, key = None and    *)
(* value = None and no populated cache raises (an AssertionError: there is *)
(* no key to score against), returns no result and leaves the cache as it  *)
(* was.                                                                    *)
C8_CrossStaticNoSourceFails ==
    (IsForward /\ Unit.encoder_decoder_attention /\ call.static_kv
       /\ IsNone(call.key) /\ IsNone(call.value) /\ ~Populated(call.past)) =>
        /\ ~call.res.ok
        /\ call.res.exc = "AssertionError"
        /\ call.res.past = call.past
        /\ ~IsNone(call.past) => past = Get(call.past)

C8_Witness ==
    /\ IsForward /\ Unit.encoder_decoder_attention /\ call.static_kv
    /\ IsNone(call.key) /\ IsNone(call.value)
    /\ call.past = Some(EmptyDict)
    /\ ~call.res.ok /\ call.res.exc = "AssertionError"

ToFrac(x) == Build3(x.sizes[1], x.sizes[2], x.sizes[3], LAMBDA t, b, e : <<At3(x, t, b, e), 1>>)

AddResidual(residual, x) ==
    Build3(x.sizes[1], x.sizes[2], x.sizes[3], LAMBDA t, b, e : FAdd(<<At3(residual, t, b, e), 1>>, At3(x, t, b, e)))

LayerNorm(x) ==
    LET E == x.sizes[3]
        centred(t, b, e) == FAdd(FScale(E, At3(x, t, b, e)),
                                 FScale(-1, FSumTo([i \in 1..E |-> At3(x, t, b, i)], E)))
    IN  Build3(x.sizes[1], x.sizes[2], E, LAMBDA t, b, e : IF centred(t, b, e)[1] > 0 THEN 1 ELSE 0)

fc1_weight(o, i) == IF o = i THEN 2 ELSE -1

fc1_bias(o) == 0

fc2_weight(o, i) == IF o = i THEN 1 ELSE 2

fc2_bias(o) == o % 2

fc1(x) == Linear(x, fc1_weight, fc1_bias)

fc2(x) == Linear(x, fc2_weight, fc2_bias)

activation_fn(x) == Build3(x.sizes[1], x.sizes[2], x.sizes[3], LAMBDA t, b, e : IF At3(x, t, b, e) > 0 THEN At3(x, t, b, e) ELSE 0)

FeedForward(x) == LayerNorm(AddResidual(x, ToFrac(fc2(activation_fn(fc1(x))))))

(* DecoderLayer.__init__: both units are built with the layer's width and  *)
(* head count.                                                             *)
NewDecoderLayer(d_model, decoder_attention_heads) ==
    Bind(NewSelfAttention(d_model, decoder_attention_heads, FALSE), LAMBDA sa :
    Bind(NewSelfAttention(d_model, decoder_attention_heads, TRUE), LAMBDA ea :
        IF ~sa.ok THEN sa
        ELSE IF ~ea.ok THEN ea
        ELSE [ok |-> TRUE,
              layer |-> [embed_dim |-> d_model, self_attn |-> sa.unit, encoder_attn |-> ea.unit]]))

(* DecoderLayer.forward.  layer_state is its optional past; the result     *)
(* carries the cache as the call leaves it.                                *)
LayerForward(layer, x, encoder_hidden_states, encoder_padding_mask, layer_state, self_attn_mask, self_attn_padding_mask) ==
    IF ~IsNone(layer_state) /\ "self_attn" \notin DOMAIN Get(layer_state)
    THEN Raise("KeyError", "past[\"self_attn\"]", layer_state)
    ELSE IF ~IsNone(layer_state) /\ "encoder_decoder_attn" \notin DOMAIN Get(layer_state)
    THEN Raise("KeyError", "past[\"encoder_decoder_attn\"]", layer_state)
    ELSE
    Bind(IF IsNone(layer_state) THEN EmptyDict
         ELSE UpdateLayerCache(layer.self_attn, Get(layer_state), Get(layer_state)["self_attn"]), LAMBDA past1 :
    Bind(Forward(layer.self_attn, x, Some(x), Some(x), self_attn_padding_mask, Some(past1), FALSE, self_attn_mask),
         LAMBDA sa :
        IF ~sa.ok THEN sa
        ELSE IF layer.encoder_attn.attn_key = layer.self_attn.attn_key
        THEN Raise("AssertionError", "encoder_attn.attn_key != self_attn.attn_key", sa.past)
        ELSE
    Bind(LayerNorm(AddResidual(x, sa.attn_output)), LAMBDA x1 :
    Bind(IF IsNone(layer_state) THEN Get(sa.past)
         ELSE UpdateLayerCache(layer.encoder_attn, Get(sa.past), Get(layer_state)["encoder_decoder_attn"]), LAMBDA past2 :
    Bind(Forward(layer.encoder_attn, x1, encoder_hidden_states, encoder_hidden_states,
                 encoder_padding_mask, Some(past2), TRUE, None), LAMBDA ea :
        IF ~ea.ok THEN ea
        ELSE [ok |-> TRUE,
              x |-> FeedForward(LayerNorm(AddResidual(x1, ea.attn_output))),
              self_attn_weights |-> sa.attn_weights,
              past |-> ea.past])))))

Layer == module.layer

LayerConfigs == {<<2, 1>>, <<2, 2>>, <<3, 2>>}

ConstructLayer ==
    /\ module.cls = "none"
    /\ \E c \in LayerConfigs :
       \E r \in {NewDecoderLayer(c[1], c[2])} :
          /\ module' = IF r.ok THEN [cls |-> "DecoderLayer", layer |-> r.layer] ELSE [cls |-> "failed"]
          /\ call' = [op |-> "new", cls |-> "DecoderLayer", embed_dim |-> c[1], num_heads |-> c[2], res |-> r]
    /\ UNCHANGED <<bsz, past, fed>>

(* encoder padding masks that leave at least one encoder position          *)
EncMaskInputs(n) ==
    {None} \cup {Some(PadMask(m, bsz)) : m \in {f \in Bits(n) : \E i \in 1..n : f[i] = 0}}

(* One layer call of a decoding loop, made as BartDecoder.forward makes    *)
(* it: the first call of a sequence has no cache and the causal mask, the  *)
(* later ones have the cache the layer returned and no mask.  The cache is *)
(* mutated in place, so it keeps what a raising call wrote to it.          *)
LayerStep ==
    /\ module.cls = "DecoderLayer"
    /\ ~Pending
    /\ \E s \in Seeds, enc \in {None} \cup {Some(Input(e, bsz, Layer.embed_dim)) : e \in EncSeeds},
          cache \in {IF past = EmptyDict THEN None ELSE Some(past), Some(past)} :
        /\ CachedLen(past, "self_attn") + Len(s) <= MaxSrcLen
        /\ \E m \in EncMaskInputs(IF IsNone(enc) THEN CachedLen(past, "encoder_decoder_attn") ELSE Get(enc).sizes[1]) :
           \E x \in {Input(s, bsz, Layer.embed_dim)} :
           \E mask \in {IF IsNone(cache) THEN Some(FutureMask(Len(s))) ELSE None} :
           \E res \in {LayerForward(Layer, x, enc, m, cache, mask, None)} :
              /\ call' = [op |-> "layer", x |-> x, encoder_hidden_states |-> enc,
                          encoder_padding_mask |-> m, past |-> cache, self_attn_mask |-> mask, res |-> res]
              /\ past' = IF IsNone(cache) THEN (IF res.ok THEN Get(res.past) ELSE past) ELSE Get(res.past)
              /\ fed' = IF past' = past THEN fed
                        ELSE IF fed = Untracked THEN Untracked
                        ELSE fed \o s
              /\ UNCHANGED <<module, bsz>>

NextLayer == ConstructLayer \/ LayerStep \/ Resume \/ NewSequence

SpecLayer == Init /\ [][NextLayer]_vars

IsLayerCall == call.op = "layer"

Sites == {"self_attn", "encoder_decoder_attn"}

Only(cache, site) ==
    IF IsNone(cache) THEN EmptyDict ELSE [a \in (DOMAIN Get(cache)) \cap {site} |-> Get(cache)[a]]

SelfCall(c) ==
    Forward(Layer.self_attn, c.x, Some(c.x), Some(c.x), None, Some(Only(c.past, "self_attn")), FALSE, c.self_attn_mask)

CrossCall(c, x1) ==
    Forward(Layer.encoder_attn, x1, c.encoder_hidden_states, c.encoder_hidden_states,
            c.encoder_padding_mask, Some(Only(c.past, "encoder_decoder_attn")), TRUE, None)

(* C3: after a layer call the layer cache has exactly the two entries      *)
(* self_attn and encoder_decoder_attn, and each is what its own unit makes *)
(* of its own earlier entry alone: the self-attention entry and weights    *)
(* are those of the self-attention call run on a cache holding only the    *)
(* self-attention entry, the cross-attention entry is that of the          *)
(* cross-attention call run on a cache holding only the cross-attention    *)
(* entry, so neither site's update overwrites or is read as the other's.   *)
C3_SitesDoNotCollide ==
    (IsLayerCall /\ call.res.ok) =>
        /\ DOMAIN Get(call.res.past) = Sites
        /\ Bind(SelfCall(call), LAMBDA sa :
              /\ sa.ok
              /\ Get(call.res.past)["self_attn"] = Get(sa.past)["self_attn"]
              /\ call.res.self_attn_weights = sa.attn_weights
              /\ Bind(CrossCall(call, LayerNorm(AddResidual(call.x, sa.attn_output))), LAMBDA ea :
                    /\ ea.ok
                    /\ Get(call.res.past)["encoder_decoder_attn"] = Get(ea.past)["encoder_decoder_attn"]))
        /\ Get(call.res.past)["self_attn"]["prev_key"].sizes[3]
             = CachedLen(Only(call.past, "self_attn"), "self_attn") + call.x.sizes[1]
        /\ ~IsNone(call.past) =>
              /\ Get(call.res.past)["encoder_decoder_attn"]["prev_key"] = Get(call.past)["encoder_decoder_attn"]["prev_key"]
              /\ Get(call.res.past)["encoder_decoder_attn"]["prev_value"] = Get(call.past)["encoder_decoder_attn"]["prev_value"]

C3_Witness ==
    /\ IsLayerCall /\ call.res.ok /\ ~IsNone(call.past)
    /\ Get(call.past)["self_attn"]["prev_key"].sizes[3] = 1
    /\ Get(call.res.past)["self_attn"]["prev_key"].sizes[3] = 2
    /\ Get(call.res.past)["encoder_decoder_attn"]["prev_key"].sizes[3] = 1
    /\ Get(call.res.past)["self_attn"]["prev_key"] # Get(call.past)["self_attn"]["prev_key"]
    /\ Get(call.res.past)["encoder_decoder_attn"] = Get(call.past)["encoder_decoder_attn"]

(***************************************************************************)
(*              A CACHE READ UNDER ANOTHER BATCH SIZE OR HEAD COUNT        *)
(*                                                                         *)
(* Here the caller is not bound to one decoding loop: every call has a     *)
(* batch size of its own, and the cache may be handed to a unit of the     *)
(* same width with another head count.  bsz is the batch size of the last  *)
(* call.                                                                   *)
(***************************************************************************)
CallBatchSizes == {1, 2}

(* the sequence length _use_and_update_saved_state reads off the stored    *)
(* keys when it views them as (bsize * num_heads, -1, head_dim)            *)
ReadLen(cache, bsize) ==
    IF CachedLen(cache, Unit.attn_key) = 0 THEN 0
    ELSE Numel(cache[Unit.attn_key]["prev_key"].sizes) \div (bsize * Unit.embed_dim)

ComputeRebatched ==
    /\ module.cls = "SelfAttention"
    /\ ~Pending
    /\ \E bsize \in CallBatchSizes, s \in Seeds,
          static_kv \in (IF Unit.encoder_decoder_attention THEN BOOLEAN ELSE {FALSE}) :
      \E query \in {Input(s, bsize, Unit.embed_dim)} :
      \E key \in (IF Unit.encoder_decoder_attention
                  THEN {None} \cup {Some(Input(e, bsize, Unit.embed_dim)) : e \in EncSeeds}
                  ELSE {Some(query)}) :
        /\ ReadLen(past, bsize) + GrowthOf(query, key, past, static_kv) <= MaxSrcLen
        /\ CachedLen(past, Unit.attn_key) + GrowthOf(query, key, past, static_kv) <= MaxSrcLen
        /\ DoForward(s, query, key, None, Some(past), static_kv, None)

(* the cache goes to a unit of the same kind and width with another head   *)
(* count                                                                   *)
ReplaceUnit ==
    /\ module.cls = "SelfAttention"
    /\ ~Pending
    /\ past # EmptyDict
    /\ \E c \in Configs :
       \E r \in {NewSelfAttention(c[1], c[2], Unit.encoder_decoder_attention)} :
          /\ r.ok
          /\ c[1] = Unit.embed_dim
          /\ c[2] # Unit.num_heads
          /\ module' = [cls |-> "SelfAttention", unit |-> r.unit]
          /\ call' = [op |-> "new", cls |-> "SelfAttention", embed_dim |-> c[1], num_heads |-> c[2], res |-> r]
    /\ UNCHANGED <<bsz, past, fed>>

NextShape == Construct \/ ComputeRebatched \/ ReplaceUnit \/ Resume \/ NewSequence

SpecShape == Init /\ [][NextShape]_vars

StoredBatch(cache) == EntryOf(cache)["prev_key"].sizes[1]

StoredHeads(cache) == EntryOf(cache)["prev_key"].sizes[2]

BuiltForAnother(c) ==
    /\ ~IsNone(c.past) /\ Populated(c.past)
    /\ (StoredBatch(c.past) # c.query.sizes[2] \/ StoredHeads(c.past) # Unit.num_heads)

(* C9: a call given a cache whose stored keys/values were built for        *)
(* another batch size or head count raises and leaves the cache as it was. *)
C9_MismatchRaises ==
    (IsForward /\ BuiltForAnother(call)) => (~call.res.ok /\ call.res.past = call.past)

(* the call that C9 rules out: stored keys built for two batch rows are    *)
(* read, scored against and stored again as keys of one batch row          *)
C9_Witness ==
    /\ IsForward /\ BuiltForAnother(call) /\ call.res.ok
    /\ StoredBatch(call.past) = 2 /\ call.query.sizes[2] = 1
    /\ StoredHeads(call.past) = Unit.num_heads
    /\ call.static_kv
    /\ StoredBatch(call.res.past) = 1
    /\ StoredLen(call.res.past) = 2 * StoredLen(call.past)
    /\ call.res.attn_weights.sizes[4] = StoredLen(call.res.past)

(***************************************************************************)
(*            A KEY PADDING MASK OF ANOTHER BATCH SIZE OR LENGTH           *)
(*                                                                         *)
(* Here the caller hands the unit key padding masks of any batch size and  *)
(* any length, with the layer cache or without one.                        *)
(***************************************************************************)
MaskBatchSizes == {1, 2}

(* the padding patterns of a given length: no padding, or the last         *)
(* position padded                                                         *)
MaskPatterns(n) == {[i \in 1..n |-> 0], [i \in 1..n |-> IF i = n THEN 1 ELSE 0]}

(* the stored mask, if any, has one flag per stored key position: a cache  *)
(* that a raising call left otherwise is not handed to another call       *)
MaskFits(cache) ==
    IF Unit.attn_key \notin DOMAIN cache THEN TRUE
    ELSE IF "prev_key_padding_mask" \notin DOMAIN cache[Unit.attn_key] THEN TRUE
    ELSE IF IsNone(cache[Unit.attn_key]["prev_key_padding_mask"]) THEN TRUE
    ELSE Get(cache[Unit.attn_key]["prev_key_padding_mask"]).sizes = <<bsz, CachedLen(cache, Unit.attn_key)>>

ComputeMasked ==
    /\ module.cls = "SelfAttention"
    /\ ~Pending
    /\ MaskFits(past)
    /\ \E s \in Seeds, cache \in {None, Some(past)} :
      \E static_kv \in (IF Unit.encoder_decoder_attention /\ ~IsNone(cache) THEN BOOLEAN ELSE {FALSE}) :
      \E query \in {Input(s, bsz, Unit.embed_dim)} :
      \E key \in (IF Unit.encoder_decoder_attention THEN KeyInputs(query) ELSE {Some(query)}) :
        /\ ~IsNone(cache) => CachedLen(past, Unit.attn_key) + GrowthOf(query, key, past, static_kv) <= MaxSrcLen
        /\ \E mb \in MaskBatchSizes, n \in 1..MaxSrcLen :
           \E m \in (IF mb = bsz THEN MaskPatterns(n) ELSE {[i \in 1..n |-> 0]}) :
              DoForward(s, query, key, Some(PadMask(m, mb)), cache, static_kv, None)

NextMask == Construct \/ ComputeMasked \/ Resume \/ NewSequence

SpecMask == Init /\ [][NextMask]_vars

(* the number of key positions the key and value of a call stand for: the  *)
(* stored ones when static_kv reuses a populated cache, else the projected *)
(* ones                                                                    *)
AttendedLen(c) ==
    IF c.static_kv /\ Populated(c.past) THEN StoredLen(c.past)
    ELSE IF Unit.encoder_decoder_attention THEN (IF IsNone(c.key) THEN 0 ELSE Get(c.key).sizes[1])
    ELSE c.query.sizes[1]

MaskMismatch(c) ==
    /\ ~IsNone(c.key_padding_mask)
    /\ Get(c.key_padding_mask).sizes # <<c.query.sizes[2], AttendedLen(c)>>

(* C11: a call whose key padding mask has another batch size or another    *)
(* source length than the keys and values it attends raises.               *)
C11_MaskMismatchRaises ==
    (IsForward /\ MaskMismatch(call)) => ~call.res.ok

(* the call that C11 rules out: on an empty cache a mask shorter than the  *)
(* keys is accepted, and the positions it does not cover are scored and    *)
(* stored as not padding, ahead of the flags that were supplied            *)
C11_Witness ==
    /\ IsForward /\ MaskMismatch(call) /\ call.res.ok
    /\ call.past = Some(EmptyDict)
    /\ Get(call.key_padding_mask).sizes = <<bsz, 1>>
    /\ At2(Get(call.key_padding_mask), 1, 1) = 1
    /\ call.res.attn_weights.sizes[4] = 2
    /\ Get(StoredMask(call.res.past)).sizes = <<bsz, 2>>
    /\ At2(Get(StoredMask(call.res.past)), 1, 1) = 0
    /\ At2(Get(StoredMask(call.res.past)), 1, 2) = 1

Dot(q, k, i, t, s) == Fin(SumTo([d \in 1..q.sizes[3] |-> At3(q, i, t, d) * At3(k, i, s, d)], q.sizes[3]))

AddBias(l, attn_mask, t, s) ==
    IF IsNone(attn_mask) THEN l
    ELSE LAdd(l, At2(Get(attn_mask),
                     IF Get(attn_mask).sizes[1] = 1 THEN 1 ELSE t,
                     IF Get(attn_mask).sizes[2] = 1 THEN 1 ELSE s))

FillPadding(unit, l, key_padding_mask, i, s) ==
    IF ~IsNone(key_padding_mask) /\ At2(Get(key_padding_mask), ((i - 1) \div unit.num_heads) + 1, s) # 0
    THEN NegInf
    ELSE l

(* the weights of a call without a cache when the masking steps are taken  *)
(* in the order given: padding first, or the additive mask first           *)
WeightsInOrder(c, padding_first) ==
    Bind(QueryOf(c), LAMBDA q :
    Bind(Get(Shape(Unit, k_proj(Get(KVSource(Unit, c.query, c.key))), -1, bsz)), LAMBDA k :
        Get(View(SoftmaxOf(Build3(q.sizes[1], q.sizes[2], k.sizes[2], LAMBDA i, t, s :
                     ExpW(IF padding_first
                          THEN AddBias(FillPadding(Unit, Dot(q, k, i, t, s), c.key_padding_mask, i, s), c.attn_mask, t, s)
                          ELSE FillPadding(Unit, AddBias(Dot(q, k, i, t, s), c.attn_mask, t, s), c.key_padding_mask, i, s)))),
                 <<bsz, Unit.num_heads, q.sizes[2], k.sizes[2]>>))))

BothMasks(c) == ~IsNone(c.attn_mask) /\ ~IsNone(c.key_padding_mask)

(* C13: when a call is given both an additive mask and a key padding mask, *)
(* the weights it returns are those of the softmax over the logits with    *)
(* the additive mask added and then the padding filled in, and equally     *)
(* those with the padding filled in and then the additive mask added; a    *)
(* key position excluded by either mask has weight 0 in every row that     *)
(* keeps a key position.                                                   *)
C13_MaskOrderIrrelevant ==
    (IsForward /\ call.res.ok /\ IsNone(call.past) /\ BothMasks(call)) =>
        /\ call.res.attn_weights = WeightsInOrder(call, FALSE)
        /\ call.res.attn_weights = WeightsInOrder(call, TRUE)
        /\ \A b \in 1..bsz, h \in 1..Unit.num_heads,
              t \in 1..call.res.attn_weights.sizes[3], s \in 1..call.res.attn_weights.sizes[4] :
                (/\ Excluded(call, b, t, s)
                 /\ \E s2 \in 1..call.res.attn_weights.sizes[4] : ~Excluded(call, b, t, s2)) =>
                    At4(call.res.attn_weights, b, h, t, s) = <<0, 1>>

C13_Witness ==
    /\ IsForward /\ call.res.ok /\ IsNone(call.past) /\ BothMasks(call)
    /\ call.res.attn_weights.sizes[3] = 2 /\ call.res.attn_weights.sizes[4] = 2
    /\ Padded(call, 1, 2) /\ ~At2(Get(call.attn_mask), 2, 2).inf
    /\ At4(call.res.attn_weights, 1, 1, 2, 2) = <<0, 1>>
    /\ ~Padded(call, 2, 2) /\ At2(Get(call.attn_mask), 1, 2).inf
    /\ At4(call.res.attn_weights, 2, 1, 1, 2) = <<0, 1>>
    /\ At4(call.res.attn_weights, 2, 1, 2, 2) # <<0, 1>>

(***************************************************************************)
(*                         UNITS WITH DROPOUT                              *)
(*                                                                         *)
(* Here units are built with a dropout rate, as DecoderLayer builds them   *)
(* (dropout=config.attention_dropout), and every call of forward draws     *)
(* from the random generator.                                              *)
(***************************************************************************)
DropoutRates == {0, 50}

Noises == {<<1>>, <<0, 1>>, <<1, 0>>}

NewSelfAttentionDropout(embed_dim, num_heads, dropout, encoder_decoder_attention) ==
    Bind(NewSelfAttention(embed_dim, num_heads, encoder_decoder_attention), LAMBDA r :
        IF r.ok THEN [r EXCEPT !.unit.dropout = dropout] ELSE r)

ConstructDropout ==
    /\ module.cls = "none"
    /\ \E c \in Configs, rate \in DropoutRates, eda \in BOOLEAN :
         \E r \in {NewSelfAttentionDropout(c[1], c[2], rate, eda)} :
         /\ module' = IF r.ok THEN [cls |-> "SelfAttention", unit |-> r.unit] ELSE [cls |-> "failed"]
         /\ call' = [op |-> "new", cls |-> "SelfAttention", embed_dim |-> c[1], num_heads |-> c[2], res |-> r]
    /\ UNCHANGED <<bsz, past, fed>>

(* a call of forward, with the layer cache or without one, and the draw it *)
(* makes                                                                   *)
ComputeDrop ==
    /\ module.cls = "SelfAttention"
    /\ ~Pending
    /\ \E s \in Seeds, cache \in {None, Some(past)}, noise \in Noises :
      \E static_kv \in (IF Unit.encoder_decoder_attention /\ ~IsNone(cache) THEN BOOLEAN ELSE {FALSE}) :
      \E query \in {Input(s, bsz, Unit.embed_dim)} :
      \E key \in (IF Unit.encoder_decoder_attention THEN KeyInputs(query) ELSE {Some(query)}) :
        /\ ~IsNone(cache) => CachedLen(past, Unit.attn_key) + GrowthOf(query, key, past, static_kv) <= MaxSrcLen
        /\ \E res \in {ForwardDrop(Unit, query, key, key, None, cache, static_kv, None, noise)} :
           \E after \in {Effects(Unit, query, key, key, None, None, res)} :
              /\ call' = [op |-> "forward", query |-> query, key |-> key, value |-> key,
                          key_padding_mask |-> None, past |-> cache,
                          static_kv |-> static_kv, attn_mask |-> None, res |-> res,
                          self |-> Unit, after |-> after, noise |-> noise]
              /\ module' = [module EXCEPT !.unit = after.self]
              /\ past' = IF IsNone(cache) THEN past ELSE Get(res.past)
              /\ fed' = IF IsNone(cache) \/ Get(res.past) = Get(cache) THEN fed
                        ELSE IF static_kv \/ fed = Untracked THEN Untracked
                        ELSE fed \o s
              /\ UNCHANGED bsz

NextDrop == ConstructDropout \/ ComputeDrop \/ Resume \/ NewSequence

SpecDrop == Init /\ [][NextDrop]_vars

(* the call c made again with the draw noise                               *)
Again(c, unit, noise) ==
    ForwardDrop(unit, c.query, c.key, c.value, c.key_padding_mask, c.past, c.static_kv, c.attn_mask, noise)

(* C14: on a unit whose dropout rate is 0, a call made again with the same *)
(* query, key, value, masks, cache and flags returns the same output and   *)
(* weights and leaves the same cache, whatever the random generator draws. *)
C14_SameInputsSameOutputs ==
    (IsForward /\ Unit.dropout = 0) =>
        \A noise \in Noises : Again(call, Unit, noise) = call.res

C14_Witness ==
    /\ IsForward /\ Unit.dropout = 0 /\ call.res.ok
    /\ ~IsNone(call.past) /\ Populated(call.past)
    /\ call.noise = <<0, 1>>
    /\ Again(call, Unit, <<1, 0>>) = call.res
    /\ Again(call, [Unit EXCEPT !.dropout = 50], <<1, 0>>).attn_output
         # Again(call, [Unit EXCEPT !.dropout = 50], <<0, 1>>).attn_output

(***************************************************************************)
(*                              THE DECODER                                *)
(*                                                                         *)
(* BartDecoder owns a list of decoder layers and the buffer of the causal  *)
(* mask.  The embedding of the input (tokens and positions, layer norm)    *)
(* is carried by Input; the tokens are not padding.  A decoding state is   *)
(* a list of layer caches.  There is one device.                           *)
(***************************************************************************)
Min(a, b) == IF a < b THEN a ELSE b

(* t[:a, :b]                                                               *)
Slice2(t, a, b) == Build2(Min(a, t.sizes[1]), Min(b, t.sizes[2]), LAMBDA i, j : At2(t, i, j))

(* A faulty variant of buffered_future_mask: the buffer built by the first *)
(* call is kept whatever the length asked for.                             *)
BufferedFutureMask_KeepFirst(buffer, dim) ==
    Bind(IF IsNone(buffer) THEN FutureMask(dim) ELSE Get(buffer), LAMBDA b :
        [buffer |-> Some(b), mask |-> Slice2(b, dim, dim)])

(* BartDecoder.buffered_future_mask: the buffer after the call and the     *)
(* mask returned.                                                          *)
BufferedFutureMask(buffer, dim) ==
    Bind(IF IsNone(buffer) \/ Get(buffer).sizes[1] < dim THEN FutureMask(dim) ELSE Get(buffer), LAMBDA b :
        [buffer |-> Some(b), mask |-> Slice2(b, dim, dim)])

(* BartDecoder.__init__; a module is in training mode when constructed     *)
NewBartDecoder(d_model, decoder_attention_heads, decoder_layers, decoder_layerdrop, output_past) ==
    Bind(NewDecoderLayer(d_model, decoder_attention_heads), LAMBDA r :
        IF ~r.ok THEN r
        ELSE [ok |-> TRUE,
              decoder |-> [embed_dim |-> d_model,
                           layers |-> [i \in 1..decoder_layers |-> r.layer],
                           layerdrop |-> decoder_layerdrop,
                           output_past |-> output_past,
                           training |-> TRUE,
                           future_mask |-> None]])

(* nn.Module.train(mode): the flag is set on the decoder and on every      *)
(* module below it                                                         *)
Train(decoder, mode) ==
    [decoder EXCEPT !.training = mode,
                    !.layers = [i \in DOMAIN decoder.layers |->
                                  [decoder.layers[i] EXCEPT !.self_attn.training = mode,
                                                            !.encoder_attn.training = mode]]]

(* A faulty variant: the causal mask is never asked for.                   *)
SelfAttnMask_Never(buffer, decoder_past, full_context_alignment, dim) ==
    [buffer |-> buffer, mask |-> None]

(* the self_attn_mask of a pass: the causal mask unless a decoding state   *)
(* is given or full_context_alignment is set                               *)
SelfAttnMask(buffer, decoder_past, full_context_alignment, dim) ==
    IF IsNone(decoder_past) /\ ~full_context_alignment
    THEN Bind(BufferedFutureMask(buffer, dim), LAMBDA r : [buffer |-> r.buffer, mask |-> Some(r.mask)])
    ELSE [buffer |-> buffer, mask |-> None]

(* The loop over the layers of BartDecoder.forward, from layer i on.  A    *)
(* layer runs unless the decoder is training and the draw made for it is   *)
(* not above the LayerDrop rate.  acc holds what the loop has gathered:    *)
(* present, the self-attention weights, and for each entry of present the  *)
(* layer that wrote it.  decoder_past is the state given, as the layers    *)
(* that ran have left it.                                                  *)
RECURSIVE RunLayers(_, _, _, _, _, _, _, _, _)
RunLayers(decoder, i, x, encoder_state, encoder_padding_mask, decoder_past, self_attn_mask, draws, acc) ==
    IF i > Len(decoder.layers)
    THEN [ok |-> TRUE, x |-> x, present |-> acc.present, attns |-> acc.attns, wrote |-> acc.wrote,
          past |-> decoder_past]
    ELSE IF decoder.training /\ ~(draws[i] > decoder.layerdrop)
    THEN RunLayers(decoder, i + 1, x, encoder_state, encoder_padding_mask, decoder_past, self_attn_mask, draws, acc)
    ELSE IF ~IsNone(decoder_past) /\ i > Len(Get(decoder_past))
    THEN [ok |-> FALSE, exc |-> "IndexError", at |-> "past[i]", present |-> acc.present, attns |-> acc.attns,
          wrote |-> acc.wrote, past |-> decoder_past]
    ELSE
    Bind(LayerForward(decoder.layers[i], x, encoder_state, encoder_padding_mask,
                      IF IsNone(decoder_past) THEN None ELSE Some(Get(decoder_past)[i]),
                      self_attn_mask, None), LAMBDA r :
    Bind(IF IsNone(decoder_past) \/ IsNone(r.past) THEN decoder_past
         ELSE Some([Get(decoder_past) EXCEPT ![i] = Get(r.past)]), LAMBDA past1 :
        IF ~r.ok
        THEN [ok |-> FALSE, exc |-> r.exc, at |-> r.at, present |-> acc.present, attns |-> acc.attns,
              wrote |-> acc.wrote, past |-> past1]
        ELSE RunLayers(decoder, i + 1, r.x, encoder_state, encoder_padding_mask, past1, self_attn_mask, draws,
                       [present |-> IF decoder.output_past THEN Append(acc.present, Get(r.past)) ELSE acc.present,
                        wrote   |-> IF decoder.output_past THEN Append(acc.wrote, i) ELSE acc.wrote,
                        attns   |-> Append(acc.attns, r.self_attn_weights)])))

(* BartDecoder.forward.  With a decoding state only the last token is fed. *)
(* The result carries the buffer of the causal mask as the pass leaves it  *)
(* and the mask the pass used.                                             *)
DecoderForward(decoder, input_ids, encoder_state, encoder_padding_mask, decoder_past, full_context_alignment, draws) ==
    Bind(IF IsNone(decoder_past) THEN input_ids ELSE <<input_ids[Len(input_ids)]>>, LAMBDA ids :
    Bind(IF Len(decoder.layers) = 0 THEN [buffer |-> decoder.future_mask, mask |-> None]
         ELSE SelfAttnMask(decoder.future_mask, decoder_past, full_context_alignment, Len(ids)), LAMBDA m :
    Bind(RunLayers(decoder, 1, Input(ids, bsz, decoder.embed_dim), encoder_state, encoder_padding_mask,
                   decoder_past, m.mask, draws, [present |-> <<>>, wrote |-> <<>>, attns |-> <<>>]), LAMBDA r :
        [ok |-> r.ok, res |-> r, self_attn_mask |-> m.mask, future_mask |-> m.buffer])))

Decoder == module.decoder

DecoderLayers == 2

LayerDropRates == {0, 50}

Draws == {25, 75}

DecSeeds == {<<1>>, <<0, 1>>, <<1, 0, 1>>}

DecEncSeed == <<1, 0>>

ConstructDecoder ==
    /\ module.cls = "none"
    /\ \E c \in LayerConfigs, rate \in LayerDropRates, output_past \in BOOLEAN :
       \E r \in {NewBartDecoder(c[1], c[2], DecoderLayers, rate, output_past)} :
          /\ module' = IF r.ok THEN [cls |-> "BartDecoder", decoder |-> r.decoder] ELSE [cls |-> "failed"]
          /\ call' = [op |-> "new", cls |-> "BartDecoder", embed_dim |-> c[1], num_heads |-> c[2], res |-> r]
    /\ UNCHANGED <<bsz, past, fed>>

(* model.eval(), called before the decoder is used                         *)
Eval ==
    /\ module.cls = "BartDecoder"
    /\ call.op = "new"
    /\ module' = [module EXCEPT !.decoder = Train(Decoder, FALSE)]
    /\ call' = [op |-> "eval"]
    /\ UNCHANGED <<bsz, past, fed>>

(* One pass of a generation loop: the first pass of a sequence is given    *)
(* the prompt and no decoding state, a later one the tokens so far and the *)
(* state the pass before returned.  A decoder that returns no state is     *)
(* always given the whole sequence.  A pass that raises ends the loop, and *)
(* its decoding state is dropped.                                          *)
DecoderStep ==
    /\ module.cls = "BartDecoder"
    /\ ~Pending
    /\ \E cache \in (IF fed = <<>> \/ ~Decoder.output_past THEN {None} ELSE {Some(past)}) :
       \E input_ids \in (IF IsNone(cache) THEN DecSeeds ELSE {fed \o <<t>> : t \in {0, 1}}),
          draws \in (IF Decoder.training /\ Decoder.layerdrop > 0
                     THEN [1..Len(Decoder.layers) -> Draws] ELSE {[i \in 1..Len(Decoder.layers) |-> 75]}) :
        /\ Len(input_ids) <= MaxSrcLen + 1
        /\ \E r \in {DecoderForward(Decoder, input_ids, Some(Input(DecEncSeed, bsz, Decoder.embed_dim)), None,
                                     cache, FALSE, draws)} :
              /\ call' = [op |-> "decoder", input_ids |-> input_ids, past |-> cache, draws |-> draws,
                          future_mask |-> Decoder.future_mask, res |-> r.res, self_attn_mask |-> r.self_attn_mask]
              /\ module' = [module EXCEPT !.decoder.future_mask = r.future_mask]
              /\ past' = IF r.ok THEN r.res.present ELSE <<>>
              /\ fed' = IF r.ok THEN input_ids ELSE <<>>
              /\ UNCHANGED bsz

NextDecoder == ConstructDecoder \/ Eval \/ DecoderStep \/ Resume \/ NewSequence

SpecDecoder == Init /\ [][NextDecoder]_vars

IsDecoderCall == call.op = "decoder"

(* C15: the decoding state a pass returns has one entry per layer, entry i *)
(* written by layer i.                                                     *)
C15_OneEntryPerLayer ==
    (IsDecoderCall /\ call.res.ok /\ Decoder.output_past) =>
        /\ Len(call.res.present) = Len(Decoder.layers)
        /\ call.res.wrote = [i \in 1..Len(Decoder.layers) |-> i]

(* the pass that C15 rules out: LayerDrop skips the first layer, and the   *)
(* state returned has one entry, written by the second layer               *)
C15_Witness ==
    /\ IsDecoderCall /\ call.res.ok /\ Decoder.output_past
    /\ Decoder.training /\ Decoder.layerdrop = 50
    /\ call.draws = <<25, 75>>
    /\ Len(call.res.present) = 1
    /\ call.res.wrote = <<2>>

(* the number of query positions and of key positions of a returned        *)
(* (bsz, heads, tgt_len, src_len) tensor of weights                        *)
TgtLen(w) == w.sizes[3]

SrcLen(w) == w.sizes[4]

(* no query position has a weight other than 0 on a later position: query  *)
(* position t of the pass is position src_len - tgt_len + t of the         *)
(* sequence                                                                *)
NoLookAhead(w) ==
    \A b \in 1..w.sizes[1], h \in 1..w.sizes[2], t \in 1..TgtLen(w), s \in 1..SrcLen(w) :
        s > SrcLen(w) - TgtLen(w) + t => At4(w, b, h, t, s) = <<0, 1>>

IsCausalMask(m, n) ==
    /\ m.sizes = <<n, n>>
    /\ \A i \in 1..n, j \in 1..n : At2(m, i, j) = IF j > i THEN NegInf ELSE Fin(0)

(* C20: whatever lengths the earlier passes had, the mask that             *)
(* buffered_future_mask returns for an input of length n is n by n, minus  *)
(* infinity strictly above the diagonal and 0 on and below it, and the     *)
(* buffer it is cut from is such a mask of at least that length.           *)
C20_BufferedMaskIsCausal ==
    /\ (IsDecoderCall /\ IsNone(call.past)) =>
          /\ ~IsNone(call.self_attn_mask)
          /\ IsCausalMask(Get(call.self_attn_mask), Len(call.input_ids))
          /\ ~IsNone(Decoder.future_mask)
          /\ Get(Decoder.future_mask).sizes[1] >= Len(call.input_ids)
    /\ (module.cls = "BartDecoder" /\ ~IsNone(Decoder.future_mask)) =>
          IsCausalMask(Get(Decoder.future_mask), Get(Decoder.future_mask).sizes[1])

C20_Witness ==
    /\ IsDecoderCall /\ IsNone(call.past)
    /\ ~IsNone(call.future_mask) /\ Get(call.future_mask).sizes[1] = 3
    /\ Len(call.input_ids) = 2
    /\ Decoder.future_mask = call.future_mask
    /\ Get(call.self_attn_mask).sizes = <<2, 2>>
    /\ At2(Get(call.self_attn_mask), 1, 2) = NegInf
    /\ At2(Get(call.self_attn_mask), 2, 1) = Fin(0)

(***************************************************************************)
(*                     THE WAVLM ENCODER AND LAYERDROP                     *)
(*                                                                         *)
(* WavLMEncoder and WavLMEncoderStableLayerNorm run their layers in a loop *)
(* that draws one number per layer and, in training mode, skips the layer  *)
(* when the draw is below config.layerdrop.  The loop is modelled with its *)
(* tuples as the code builds them: the hidden states are the number of     *)
(* frames of the input followed by the layers applied to it in order (0    *)
(* for the encoder's layer norm), a set of attention weights is the layer  *)
(* it came from with the hidden states it was computed over, a position    *)
(* bias is the layer that computed it with the lengths it was computed     *)
(* for, and a Python tuple is a sequence indexed from 0.                   *)
(***************************************************************************)

(* t[idx] of a Python tuple *)
TupleAt(t, idx) ==
    IF idx < Len(t) THEN [ok |-> TRUE, val |-> t[idx + 1]]
    ELSE [ok |-> FALSE, error |-> "IndexError"]

(* the encoder as its constructor leaves it: a module is in training mode  *)
(* until eval() is called                                                  *)
NewWavLMEncoder(num_hidden_layers, layerdrop, do_stable_layer_norm) ==
    [layers |-> [i \in 1..num_hidden_layers |-> [index |-> i]],
     layerdrop |-> layerdrop,
     do_stable_layer_norm |-> do_stable_layer_norm,
     gradient_checkpointing |-> FALSE,
     training |-> TRUE]

(* tgt_len of hidden states *)
Frames(hidden_states) == hidden_states[1]

(* compute_bias of the attention of a layer, from its own rel_attn_embed *)
ComputeBias(layer, query_length, key_length) ==
    [computed_by |-> layer.index, query_length |-> query_length, key_length |-> key_length]

PositionBias_Recompute(layer, hidden_states, position_bias) ==
    Some(ComputeBias(layer, Frames(hidden_states), Frames(hidden_states)))

(* the position bias WavLMAttention.forward uses and returns *)
PositionBias(layer, hidden_states, position_bias) ==
    IF IsNone(position_bias)
    THEN Some(ComputeBias(layer, Frames(hidden_states), Frames(hidden_states)))
    ELSE position_bias

(* the layer's forward: the position bias is computed by the attention     *)
(* when none is passed and handed on otherwise                             *)
WavLMEncoderLayer(layer, hidden_states, position_bias, output_attentions) ==
    <<Append(hidden_states, layer.index),
      PositionBias(layer, hidden_states, position_bias)>>
    \o (IF output_attentions
        THEN <<[layer |-> layer.index, over |-> hidden_states]>>
        ELSE <<>>)

(* skip_the_layer *)
SkipTheLayer(encoder, dropout_probability) ==
    encoder.training /\ dropout_probability < encoder.layerdrop

(* The loop over the layers from layer i on.  acc carries the loop's       *)
(* variables: hidden_states, position_bias, all_hidden_states,             *)
(* all_self_attentions, and for the layers that ran, in order: the layer,  *)
(* the position bias it was handed and the one it returned.                *)
RECURSIVE EncoderLayers(_, _, _, _, _, _, _)
EncoderLayers(encoder, i, acc, output_attentions, output_hidden_states, deepspeed_zero3_is_enabled, draws) ==
    IF i > Len(encoder.layers) THEN [ok |-> TRUE, acc |-> acc]
    ELSE
      Bind(IF output_hidden_states
           THEN Some(Append(Get(acc.all_hidden_states), acc.hidden_states))
           ELSE acc.all_hidden_states,
        LAMBDA all_hidden_states :
      Bind(SkipTheLayer(encoder, draws[i]), LAMBDA skip_the_layer :
      Bind(~skip_the_layer \/ deepspeed_zero3_is_enabled, LAMBDA runs :
      Bind(IF runs
           THEN WavLMEncoderLayer(encoder.layers[i], acc.hidden_states,
                                  acc.position_bias, output_attentions)
           ELSE acc.layer_outputs,
        LAMBDA ran_outputs :
      Bind(IF skip_the_layer THEN <<None, None>> ELSE ran_outputs,
        LAMBDA layer_outputs :
      Bind(IF output_attentions THEN TupleAt(layer_outputs, 2) ELSE [ok |-> TRUE],
        LAMBDA attn :
        IF ~attn.ok
        THEN [ok |-> FALSE, error |-> attn.error, layer |-> i,
              ran |-> IF runs THEN Append(acc.ran, i) ELSE acc.ran,
              handed |-> IF runs THEN Append(acc.handed, acc.position_bias) ELSE acc.handed,
              returned |-> IF runs THEN Append(acc.returned, ran_outputs[2]) ELSE acc.returned]
        ELSE EncoderLayers(encoder, i + 1,
               [hidden_states |-> IF runs THEN ran_outputs[1] ELSE acc.hidden_states,
                position_bias |-> IF runs THEN ran_outputs[2] ELSE acc.position_bias,
                layer_outputs |-> layer_outputs,
                all_hidden_states |-> all_hidden_states,
                all_self_attentions |->
                    IF output_attentions
                    THEN Some(Append(Get(acc.all_self_attentions), attn.val))
                    ELSE acc.all_self_attentions,
                ran |-> IF runs THEN Append(acc.ran, i) ELSE acc.ran,
                handed |-> IF runs THEN Append(acc.handed, acc.position_bias) ELSE acc.handed,
                returned |-> IF runs THEN Append(acc.returned, ran_outputs[2]) ELSE acc.returned],
               output_attentions, output_hidden_states,
               deepspeed_zero3_is_enabled, draws)))))))

(* forward of WavLMEncoder and of WavLMEncoderStableLayerNorm: the two     *)
(* differ in where the layer norm is applied, not in the loop              *)
WavLMEncoderForward(encoder, hidden_states, output_attentions, output_hidden_states, deepspeed_zero3_is_enabled, draws) ==
    Bind(EncoderLayers(encoder, 1,
           [hidden_states |-> IF encoder.do_stable_layer_norm THEN hidden_states
                              ELSE Append(hidden_states, 0),
            position_bias |-> None,
            layer_outputs |-> <<>>,
            all_hidden_states |-> IF output_hidden_states THEN Some(<<>>) ELSE None,
            all_self_attentions |-> IF output_attentions THEN Some(<<>>) ELSE None,
            ran |-> <<>>, handed |-> <<>>, returned |-> <<>>],
           output_attentions, output_hidden_states, deepspeed_zero3_is_enabled, draws),
      LAMBDA r :
        IF ~r.ok THEN r
        ELSE Bind(IF encoder.do_stable_layer_norm
                  THEN Append(r.acc.hidden_states, 0) ELSE r.acc.hidden_states,
               LAMBDA last :
                 [ok |-> TRUE,
                  last_hidden_state |-> last,
                  hidden_states |-> IF output_hidden_states
                                    THEN Some(Append(Get(r.acc.all_hidden_states), last))
                                    ELSE None,
                  attentions |-> r.acc.all_self_attentions,
                  position_bias |-> r.acc.position_bias,
                  ran |-> r.acc.ran,
                  handed |-> r.acc.handed,
                  returned |-> r.acc.returned]))

Encoder == module.encoder

HiddenLayerCounts == {2, 3}

EncoderInputs == {<<100>>, <<200>>}

(* WavLMModel constructs the encoder its configuration asks for *)
ConstructEncoder ==
    /\ module.cls = "none"
    /\ \E n \in HiddenLayerCounts, rate \in LayerDropRates, stable \in BOOLEAN :
          /\ module' = [cls |-> "WavLMEncoder", encoder |-> NewWavLMEncoder(n, rate, stable)]
          /\ call' = [op |-> "new", cls |-> "WavLMEncoder", num_hidden_layers |-> n]
    /\ UNCHANGED <<bsz, past, fed>>

(* model.train() and model.eval() *)
SetMode ==
    /\ module.cls = "WavLMEncoder"
    /\ ~Pending
    /\ \E mode \in BOOLEAN :
          /\ mode # Encoder.training
          /\ module' = [module EXCEPT !.encoder.training = mode]
          /\ call' = [op |-> IF mode THEN "train" ELSE "eval"]
    /\ UNCHANGED <<bsz, past, fed>>

(* one pass of the encoder over the features of an utterance *)
EncoderPass ==
    /\ module.cls = "WavLMEncoder"
    /\ ~Pending
    /\ \E hidden_states \in EncoderInputs, output_attentions \in BOOLEAN,
          output_hidden_states \in BOOLEAN, deepspeed \in BOOLEAN,
          draws \in [1..Len(Encoder.layers) -> Draws] :
          call' = [op |-> "encoder",
                   hidden_states |-> hidden_states,
                   output_attentions |-> output_attentions,
                   output_hidden_states |-> output_hidden_states,
                   deepspeed_zero3_is_enabled |-> deepspeed,
                   draws |-> draws,
                   res |-> WavLMEncoderForward(Encoder, hidden_states, output_attentions,
                                               output_hidden_states, deepspeed, draws)]
    /\ UNCHANGED <<module, bsz, past, fed>>

NextWavLM == ConstructEncoder \/ SetMode \/ EncoderPass \/ Resume

SpecWavLM == Init /\ [][NextWavLM]_vars

IsEncoderCall == module.cls = "WavLMEncoder" /\ call.op = "encoder"

(* the layers the draws of the last pass made LayerDrop skip *)
Skipped(c) == {i \in 1..Len(Encoder.layers) : SkipTheLayer(Encoder, c.draws[i])}

(* C16: when output_attentions is requested, a pass of the encoder         *)
(* completes and returns an attentions tuple with exactly one entry per    *)
(* layer, whichever layers LayerDrop skips during the pass.                *)
C16_OneAttentionPerLayer ==
    (IsEncoderCall /\ call.output_attentions) =>
        /\ call.res.ok
        /\ ~IsNone(call.res.attentions)
        /\ Len(Get(call.res.attentions)) = Len(Encoder.layers)

(* a pass in training mode in which LayerDrop skips the second layer of    *)
(* three: reading layer_outputs[2] of the two-element tuple raises         *)
C16_Witness ==
    /\ IsEncoderCall /\ call.output_attentions
    /\ Len(Encoder.layers) = 3
    /\ Skipped(call) = {2}
    /\ ~call.res.ok
    /\ call.res.error = "IndexError"
    /\ call.res.layer = 2

(***************************************************************************)
(*                BEIT3: INCREMENTAL CAPTION GENERATION                    *)
(*                                                                         *)
(* Beit3ForCaptioning.forward builds the caption mask, gives every layer   *)
(* an entry of the past_key_value dictionary and runs Beit3Model, whose    *)
(* encoder hands entry idx to layer idx; Beit3MultiheadAttention reads and *)
(* writes the entry in place.  A tensor of keys or values is modelled by   *)
(* the sequence of the positions it holds along its length dimension, a    *)
(* position by the call that processed it, its modality and its index in   *)
(* that call's input.  A key of a Python dictionary is modelled by its     *)
(* repr, under which the integer 0 and the string 'prev_key' differ.       *)
(***************************************************************************)

ReprInt(i) == ToString(i)

ReprStr(s) == "'" \o s \o "'"

(* the caption mask before the last rows are taken: 0 where a position may *)
(* be attended to, 1 where it may not                                      *)
UniMask(text_len, image_len) ==
    [i \in 1..(text_len + image_len) |->
        [j \in 1..(text_len + image_len) |->
            IF j <= image_len \/ (i > image_len /\ j <= i) THEN 0 ELSE 1]]

(* t[-n:] *)
LastRows(t, n) == SubSeq(t, IF Len(t) > n THEN Len(t) - n + 1 ELSE 1, Len(t))

(* `a += b` for a of (batch * heads, target_length, src_len) and b of      *)
(* (1, rows, cols) raises unless b broadcasts to the shape of a            *)
Broadcasts(mask, target_length, src_len) ==
    /\ Len(mask) \in {1, target_length}
    /\ \A i \in 1..Len(mask) : Len(mask[i]) \in {1, src_len}

(* "prev_key" in past_key_value *)
CachedKeys(entry) == ReprStr("prev_key") \in DOMAIN entry

(* forward of Beit3MultiheadAttention on the positions of one call: the    *)
(* entry as the call leaves it, the key positions the weights range over   *)
(* and, per query position, the key positions the mask leaves visible      *)
Beit3MultiheadAttention(query, past_key_value, attention_mask) ==
    Bind(IF ~IsNone(past_key_value) /\ CachedKeys(Get(past_key_value))
         THEN Get(past_key_value)[ReprInt(0)] \o query ELSE query,
      LAMBDA key :
      Bind(IF ~IsNone(past_key_value) /\ CachedKeys(Get(past_key_value))
           THEN Get(past_key_value)[ReprInt(1)] \o query ELSE query,
        LAMBDA value :
        Bind(IF IsNone(past_key_value) THEN None
             ELSE Some(SetItem(SetItem(Get(past_key_value), ReprInt(0), key), ReprInt(1), value)),
          LAMBDA entry :
            IF ~IsNone(attention_mask) /\ ~Broadcasts(Get(attention_mask), Len(query), Len(key))
            THEN [ok |-> FALSE, error |-> "RuntimeError", past_key_value |-> entry]
            ELSE [ok |-> TRUE, past_key_value |-> entry, key |-> key, value |-> value,
                  visible |-> [t \in 1..Len(query) |->
                      {s \in 1..Len(key) :
                          IF IsNone(attention_mask) THEN TRUE
                          ELSE Bind(Get(attention_mask)[IF Len(Get(attention_mask)) = 1 THEN 1 ELSE t],
                                 LAMBDA row : row[IF Len(row) = 1 THEN 1 ELSE s] = 0)}]])))

(* the loop of Beit3Encoder.forward from layer idx on (idx counts from 0); *)
(* the layers keep the positions of the hidden state                       *)
RECURSIVE Beit3Layers(_, _, _, _, _, _)
Beit3Layers(model, idx, hidden_state, attention_mask, past_key_value, attns) ==
    IF idx >= model.num_layers
    THEN [ok |-> TRUE, past_key_value |-> past_key_value, attns |-> attns]
    ELSE Bind(Beit3MultiheadAttention(hidden_state,
                  IF IsNone(past_key_value) THEN None ELSE Some(Get(past_key_value)[idx]),
                  attention_mask),
           LAMBDA r :
           Bind(IF IsNone(past_key_value) THEN None
                ELSE Some(SetItem(Get(past_key_value), idx, Get(r.past_key_value))),
             LAMBDA written :
               IF ~r.ok
               THEN [ok |-> FALSE, error |-> r.error, layer |-> idx,
                     past_key_value |-> written, attns |-> attns]
               ELSE Beit3Layers(model, idx + 1, hidden_state, attention_mask, written,
                                Append(attns, [key |-> r.key, visible |-> r.visible]))))

(* the model as its constructor leaves it.  Beit3ForCaptioning defines no  *)
(* get_num_layers (Beit3Model does); whether its base class, which is      *)
(* defined in modeling_utils, supplies one is left open.                   *)
NewBeit3ForCaptioning(num_hidden_layers, num_patches, inherits_get_num_layers) ==
    [num_layers |-> num_hidden_layers,
     num_position_embeddings |-> num_patches + 1,
     inherits_get_num_layers |-> inherits_get_num_layers]

(* the positions a call embeds: the image's, when pixel_values is given,   *)
(* then the text's                                                         *)
Embeddings(model, t, input_ids, pixel_values) ==
    (IF pixel_values
     THEN [j \in 1..model.num_position_embeddings |-> [call |-> t, of |-> "image", index |-> j]]
     ELSE <<>>)
    \o [j \in 1..Len(input_ids) |-> [call |-> t, of |-> "text", index |-> j]]

(* forward of Beit3ForCaptioning, as call number t made with the           *)
(* dictionary; pixel_values tells whether an image is given                *)
Beit3ForCaptioningForward(model, t, input_ids, pixel_values, text_len, past_key_value) ==
    Bind(IF IsNone(text_len) THEN Len(input_ids) ELSE Get(text_len), LAMBDA tl :
    Bind(UniMask(tl, model.num_position_embeddings), LAMBDA uni_mask :
      IF ~IsNone(past_key_value) /\ ~model.inherits_get_num_layers
      THEN [ok |-> FALSE, error |-> "AttributeError", layer |-> -1,
            past_key_value |-> past_key_value, attns |-> <<>>]
      ELSE Bind(IF IsNone(past_key_value) THEN None
                ELSE Some([idx \in DOMAIN Get(past_key_value) \cup 0..(model.num_layers - 1) |->
                             IF idx \in DOMAIN Get(past_key_value)
                             THEN Get(past_key_value)[idx] ELSE EmptyDict]),
             LAMBDA filled :
               Beit3Layers(model, 0, Embeddings(model, t, input_ids, pixel_values),
                           Some(IF pixel_values THEN uni_mask ELSE LastRows(uni_mask, 2)),
                           filled, <<>>))))

Captioner == module.model

(* the most calls made with one dictionary *)
MaxCalls == 3

Beit3LayerCounts == {1, 2}

PatchCounts == {1, 2}

TextLens == {1, 2}

ConstructCaptioner ==
    /\ module.cls = "none"
    /\ \E n \in Beit3LayerCounts, p \in PatchCounts, inherits \in BOOLEAN :
          /\ module' = [cls |-> "Beit3ForCaptioning", model |-> NewBeit3ForCaptioning(n, p, inherits)]
          /\ call' = [op |-> "new", cls |-> "Beit3ForCaptioning", num_hidden_layers |-> n]
    /\ UNCHANGED <<bsz, past, fed>>

(* the positions processed in the calls made with the dictionary, in order *)
RECURSIVE Processed(_)
Processed(calls) ==
    IF calls = <<>> THEN <<>> ELSE Processed(SubSeq(calls, 1, Len(calls) - 1)) \o calls[Len(calls)]

IsText(position) == position.of = "text"

(* the number of text positions of the calls made with the dictionary *)
TextSoFar == Len(SelectSeq(Processed(fed), IsText))

(* One call of a caption loop.  The first call of a sequence is given the  *)
(* image and the prompt, a later one the new tokens alone; each is given   *)
(* no dictionary or the dictionary the loop created empty and has passed   *)
(* to every call since.  The dictionary is written in place, so it keeps   *)
(* what a call wrote to it whether or not the call returns.                *)
CaptionStep ==
    /\ module.cls = "Beit3ForCaptioning"
    /\ ~Pending
    /\ Len(fed) < MaxCalls
    /\ \E n \in TextLens, given_len \in BOOLEAN, incremental \in BOOLEAN :
        \E input_ids \in {[j \in 1..n |-> j]}, pixel_values \in {fed = <<>>} :
         \E text_len \in {IF given_len THEN Some(TextSoFar + n) ELSE None} :
          \E r \in {Beit3ForCaptioningForward(Captioner, Len(fed) + 1, input_ids, pixel_values,
                        text_len, IF incremental THEN Some(past) ELSE None)} :
            /\ fed # <<>> => incremental
            /\ call' = [op |-> "caption", t |-> Len(fed) + 1, input_ids |-> input_ids,
                        pixel_values |-> pixel_values, text_len |-> text_len,
                        incremental |-> incremental, res |-> r,
                        embeddings |-> Embeddings(Captioner, Len(fed) + 1, input_ids, pixel_values)]
            /\ past' = IF incremental THEN Get(r.past_key_value) ELSE past
            /\ fed' = IF incremental
                      THEN Append(fed, Embeddings(Captioner, Len(fed) + 1, input_ids, pixel_values))
                      ELSE fed
    /\ UNCHANGED <<module, bsz>>

NextBeit3 == ConstructCaptioner \/ CaptionStep \/ Resume \/ NewSequence

SpecBeit3 == Init /\ [][NextBeit3]_vars

IsCaptionCall == module.cls = "Beit3ForCaptioning" /\ call.op = "caption" /\ call.incremental

(* C17: after the t-th call made with the same dictionary, the entry of    *)
(* each layer holds the keys and values of all positions processed in      *)
(* calls 1..t, and the attention of call t ranges over all of them.        *)
C17_CacheHoldsAllPositions ==
    IsCaptionCall =>
        /\ call.res.ok
        /\ \A idx \in 0..(Captioner.num_layers - 1) :
              /\ idx \in DOMAIN past
              /\ ReprInt(0) \in DOMAIN past[idx] /\ ReprInt(1) \in DOMAIN past[idx]
              /\ past[idx][ReprInt(0)] = Processed(fed)
              /\ past[idx][ReprInt(1)] = Processed(fed)
              /\ call.res.attns[idx + 1].key = Processed(fed)

(* the second call made with a dictionary: the first layer's entry holds   *)
(* the positions of the second call alone, and the call raises             *)
C17_Witness ==
    /\ IsCaptionCall /\ call.t = 2
    /\ Captioner.inherits_get_num_layers
    /\ Len(call.input_ids) = 2
    /\ past[0][ReprInt(0)] = call.embeddings
    /\ past[0][ReprInt(0)] # Processed(fed)
    /\ ~call.res.ok /\ call.res.error = "RuntimeError" /\ call.res.layer = 0

(***************************************************************************)
(*                        THE AGENT TYPES OF THE TOOLS                     *)
(*                                                                         *)
(* AgentType and its subclasses AgentText, AgentImage and AgentAudio wrap  *)
(* a value an agent returned.  A Python value is modelled by its type and  *)
(* a tag telling values of the type apart, an object by its class and its  *)
(* attributes, and the optional packages (PIL, torch, soundfile) by the    *)
(* set of those that are installed.                                        *)
(***************************************************************************)

PyStr(s) == [type |-> "str", v |-> s]

PyNone == [type |-> "NoneType", v |-> "None"]

IsInstance(value, type) == value.type = type

(* the values an agent hands to a constructor: text or a path, a PIL       *)
(* image, a tensor, and a value of a type no agent type is made for        *)
AgentValues ==
    {PyStr("a cat"), PyStr("/data/cat.png"),
     [type |-> "PIL.Image", v |-> "cat"],
     [type |-> "torch.Tensor", v |-> "cat"],
     [type |-> "int", v |-> "7"]}

AgentClasses == {"AgentType", "AgentText", "AgentImage", "AgentAudio"}

Packages == {"vision", "torch", "soundfile"}

(* the names tempfile.NamedTemporaryFile may give a file, less the suffix  *)
TempNames == {"/tmp/tmp1", "/tmp/tmp2"}

(* AgentType.__init__, which AgentText inherits *)
NewAgentType(cls, value) ==
    [ok |-> TRUE, obj |-> [cls |-> cls, value |-> value]]

(* AgentImage.__init__ *)
NewAgentImage(value, installed) ==
    IF "vision" \notin installed THEN [ok |-> FALSE, error |-> "ImportError"]
    ELSE IF IsInstance(value, "PIL.Image")
    THEN [ok |-> TRUE, obj |-> [cls |-> "AgentImage", value |-> value,
                                _path |-> None, _raw |-> Some(value), _tensor |-> None]]
    ELSE IF IsInstance(value, "str")
    THEN [ok |-> TRUE, obj |-> [cls |-> "AgentImage", value |-> value,
                                _path |-> Some(value), _raw |-> None, _tensor |-> None]]
    ELSE IF "torch" \notin installed THEN [ok |-> FALSE, error |-> "NameError"]
    ELSE IF IsInstance(value, "torch.Tensor")
    THEN [ok |-> TRUE, obj |-> [cls |-> "AgentImage", value |-> value,
                                _path |-> None, _raw |-> None, _tensor |-> Some(value)]]
    ELSE [ok |-> FALSE, error |-> "ValueError"]

(* AgentAudio.__init__ *)
NewAgentAudio(value, installed) ==
    IF "soundfile" \notin installed THEN [ok |-> FALSE, error |-> "ImportError"]
    ELSE IF IsInstance(value, "str")
    THEN [ok |-> TRUE, obj |-> [cls |-> "AgentAudio", value |-> value,
                                _path |-> Some(value), _tensor |-> None]]
    ELSE IF "torch" \notin installed THEN [ok |-> FALSE, error |-> "NameError"]
    ELSE IF IsInstance(value, "torch.Tensor")
    THEN [ok |-> TRUE, obj |-> [cls |-> "AgentAudio", value |-> value,
                                _path |-> None, _tensor |-> Some(value)]]
    ELSE [ok |-> FALSE, error |-> "ValueError"]

NewAgent(cls, value, installed) ==
    IF cls = "AgentImage" THEN NewAgentImage(value, installed)
    ELSE IF cls = "AgentAudio" THEN NewAgentAudio(value, installed)
    ELSE NewAgentType(cls, value)

(* str(value) of a wrapped value *)
StrOf(value) == IF IsInstance(value, "str") THEN value ELSE PyStr("<" \o value.type \o " " \o value.v \o ">")

(* AgentImage.to_string: the object as the call leaves it and the value    *)
(* returned; a function that ends without a return statement returns None  *)
ImageToString(obj, temp) ==
    IF ~IsNone(obj._path) THEN [obj |-> obj, ret |-> Get(obj._path)]
    ELSE IF ~IsNone(obj._raw)
    THEN [obj |-> [obj EXCEPT !._path = Some(PyStr(temp \o ".png"))], ret |-> PyStr(temp \o ".png")]
    ELSE [obj |-> obj, ret |-> PyNone]

(* AgentAudio.to_string *)
AudioToString(obj, temp) ==
    IF ~IsNone(obj._path) THEN [obj |-> obj, ret |-> Get(obj._path)]
    ELSE IF ~IsNone(obj._tensor)
    THEN [obj |-> [obj EXCEPT !._path = Some(PyStr(temp \o ".wav"))], ret |-> PyStr(temp \o ".wav")]
    ELSE [obj |-> obj, ret |-> PyNone]

(* obj.to_string() *)
ToStringOf(obj, temp) ==
    IF obj.cls = "AgentImage" THEN ImageToString(obj, temp)
    ELSE IF obj.cls = "AgentAudio" THEN AudioToString(obj, temp)
    ELSE IF obj.cls = "AgentText" THEN [obj |-> obj, ret |-> obj.value]
    ELSE [obj |-> obj, ret |-> StrOf(obj.value)]

(* str(obj): AgentType.__str__ returns self.to_string(), and str raises    *)
(* TypeError when __str__ returns something that is not a string           *)
Str(obj, temp) ==
    Bind(ToStringOf(obj, temp), LAMBDA r :
        IF IsInstance(r.ret, "str") THEN [ok |-> TRUE, obj |-> r.obj, ret |-> r.ret]
        ELSE [ok |-> FALSE, obj |-> r.obj, error |-> "TypeError"])

Agent == module.obj

(* a tool's output is wrapped in an agent type *)
ConstructAgent ==
    /\ module.cls = "none"
    /\ \E cls \in AgentClasses, value \in AgentValues, installed \in SUBSET Packages :
        \E r \in {NewAgent(cls, value, installed)} :
          /\ module' = IF r.ok THEN [cls |-> cls, obj |-> r.obj] ELSE [cls |-> "failed"]
          /\ call' = [op |-> "new", cls |-> cls, value |-> value, installed |-> installed, res |-> r]
    /\ UNCHANGED <<bsz, past, fed>>

(* obj.to_string() *)
CallToString ==
    /\ module.cls \in AgentClasses
    /\ \E temp \in TempNames :
        \E r \in {ToStringOf(Agent, temp)} :
          /\ module' = [module EXCEPT !.obj = r.obj]
          /\ call' = [op |-> "to_string", self |-> Agent, ok |-> TRUE, ret |-> r.ret]
    /\ UNCHANGED <<bsz, past, fed>>

(* str(obj) *)
CallStr ==
    /\ module.cls \in AgentClasses
    /\ \E temp \in TempNames :
        \E r \in {Str(Agent, temp)} :
          /\ module' = [module EXCEPT !.obj = r.obj]
          /\ call' = [op |-> "str", self |-> Agent, ok |-> r.ok,
                      ret |-> IF r.ok THEN r.ret ELSE PyNone]
    /\ UNCHANGED <<bsz, past, fed>>

NextAgent == ConstructAgent \/ CallToString \/ CallStr

SpecAgent == Init /\ [][NextAgent]_vars

(* the kinds of value each agent type is made for *)
Accepted(obj) ==
    IF obj.cls = "AgentImage" THEN obj.value.type \in {"PIL.Image", "str", "torch.Tensor"}
    ELSE IF obj.cls = "AgentAudio" THEN obj.value.type \in {"str", "torch.Tensor"}
    ELSE obj.value.type = "str"

IsStringified == module.cls \in AgentClasses /\ call.op \in {"to_string", "str"} /\ Accepted(call.self)

(* C18: for text, for an image given as a PIL image, a path or a tensor,   *)
(* and for audio given as a path or a tensor, to_string() and str(obj)     *)
(* return a string.                                                        *)
C18_StringifyReturnsString ==
    IsStringified => (call.ok /\ IsInstance(call.ret, "str"))

(* str() of an image made from a tensor raises TypeError *)
C18_Witness ==
    /\ IsStringified /\ call.op = "str"
    /\ call.self.cls = "AgentImage" /\ ~IsNone(call.self._tensor)
    /\ ~call.ok

(***************************************************************************)
(*              THE PER-LAYER CACHES THE DECODER RETURNS                   *)
(***************************************************************************)

(* a layer cache with keys and values of at least one position at both     *)
(* attention sites                                                         *)
HoldsBoth(cache) ==
    \A site \in Sites :
        /\ site \in DOMAIN cache
        /\ {"prev_key", "prev_value"} \subseteq DOMAIN cache[site]
        /\ cache[site]["prev_key"].sizes[3] >= 1
        /\ cache[site]["prev_value"].sizes[3] >= 1

(* C21: every per-layer cache a decoder pass returns, and so every cache   *)
(* the generation loop holds for the next step, has populated keys and     *)
(* values at both self_attn and encoder_decoder_attn, and no layer that is *)
(* handed such a cache fails to find an entry.                             *)
C21_BothSitesPopulated ==
    /\ IsDecoderCall =>
          /\ \A l \in 1..Len(call.res.present) : HoldsBoth(call.res.present[l])
          /\ ~call.res.ok => call.res.exc # "KeyError"
    /\ module.cls = "BartDecoder" => \A l \in 1..Len(past) : HoldsBoth(past[l])

(* the second step of a loop: both layers were handed the caches of the    *)
(* first step and return caches with both sites populated                  *)
C21_Witness ==
    /\ IsDecoderCall /\ call.res.ok /\ ~IsNone(call.past)
    /\ Len(Get(call.past)) = 2 /\ Len(call.res.present) = 2
    /\ HoldsBoth(Get(call.past)[2])
    /\ call.res.present[2]["self_attn"]["prev_key"].sizes[3]
         = Get(call.past)[2]["self_attn"]["prev_key"].sizes[3] + 1
    /\ call.res.present[2]["encoder_decoder_attn"]["prev_key"].sizes[3] = Len(DecEncSeed)

(***************************************************************************)
(*                 THE POSITION BIAS OF THE WAVLM ENCODER                  *)
(***************************************************************************)

(* the bias of a pass: the one its first executed layer computes for the   *)
(* length of the pass's input                                              *)
BiasOf(c) ==
    ComputeBias(Encoder.layers[c.res.ran[1]], Frames(c.hidden_states), Frames(c.hidden_states))

(* C22: in one pass of the encoder the first layer that executes is handed *)
(* no position bias, whatever earlier passes did, and computes one for the *)
(* input of this pass; every later layer that executes is handed that bias *)
(* and returns it, so none computes a second.                              *)
C22_BiasComputedOnce ==
    (IsEncoderCall /\ call.res.ran # <<>>) =>
        /\ call.res.handed[1] = None
        /\ \A k \in 1..Len(call.res.ran) : call.res.returned[k] = Some(BiasOf(call))
        /\ \A k \in 2..Len(call.res.ran) : call.res.handed[k] = Some(BiasOf(call))

(* a pass over 200 frames in which LayerDrop skips the first of three      *)
(* layers: the second layer computes the bias and the third is handed it   *)
C22_Witness ==
    /\ IsEncoderCall /\ call.res.ok
    /\ Frames(call.hidden_states) = 200
    /\ call.res.ran = <<2, 3>>
    /\ call.res.handed = <<None, Some(BiasOf(call))>>
    /\ BiasOf(call).computed_by = 2
    /\ call.res.position_bias = Some(BiasOf(call))

(***************************************************************************)
(*                     THE MULTIWAY MODULES OF BEIT3                       *)
(*                                                                         *)
(* Each multiway module holds two branches, self.text and self.image, and  *)
(* routes the positions of its input by the split position it is given.    *)
(* The output of a module is modelled, position by position, by the token  *)
(* the position holds and the branch that processed it; a token by its     *)
(* modality and its index in the image or in the text.                     *)
(***************************************************************************)

(* the rule the three modules that transform hidden states share: all      *)
(* positions to the branch `whole` when split_position is -1, all to       *)
(* `other` when it is 0, otherwise the first split_position positions to   *)
(* `head` and the rest to `tail`, concatenated in that order               *)
Route(hidden_states, split_position, whole, other, head, tail) ==
    IF split_position = -1
    THEN [ok |-> TRUE, out |-> [i \in 1..Len(hidden_states) |-> [token |-> hidden_states[i], by |-> whole]]]
    ELSE IF split_position = 0
    THEN [ok |-> TRUE, out |-> [i \in 1..Len(hidden_states) |-> [token |-> hidden_states[i], by |-> other]]]
    ELSE IF split_position < 0 \/ split_position > Len(hidden_states)
    THEN [ok |-> FALSE, error |-> "RuntimeError"]
    ELSE [ok |-> TRUE,
          out |-> [i \in 1..split_position |-> [token |-> hidden_states[i], by |-> head]]
                  \o [i \in 1..(Len(hidden_states) - split_position) |->
                        [token |-> hidden_states[split_position + i], by |-> tail]]]

(* Beit3MultiwayFeedForwardNetwork.forward *)
Beit3MultiwayFeedForwardNetwork(hidden_states, split_position) ==
    Route(hidden_states, split_position, "text", "image", "text", "image")

Beit3AttentionLinear_ByName(hidden_states, split_position) ==
    Route(hidden_states, split_position, "text", "image", "image", "text")

(* Beit3AttentionLinear.forward *)
Beit3AttentionLinear(hidden_states, split_position) ==
    Route(hidden_states, split_position, "text", "image", "text", "image")

(* Beit3LayerNorm.forward *)
Beit3LayerNorm(hidden_states, split_position) ==
    Route(hidden_states, split_position, "text", "image", "text", "image")

(* torch.arange(2, n + 2) *)
Arange2(n) == [i \in 1..n |-> i + 1]

(* Beit3PositionEmbeddings.forward: one embedding per position index, from *)
(* the table self.image or self.text                                       *)
Beit3PositionEmbeddings(hidden_states, text_end_position, multiway_split_position) ==
    Bind(IF IsNone(text_end_position) THEN Arange2(Len(hidden_states)) ELSE Get(text_end_position),
      LAMBDA positions :
        IF multiway_split_position = -1
        THEN [ok |-> TRUE, out |-> [i \in 1..Len(positions) |-> [position |-> positions[i], by |-> "image"]]]
        ELSE IF multiway_split_position = 0
        THEN [ok |-> TRUE, out |-> [i \in 1..Len(positions) |-> [position |-> positions[i], by |-> "text"]]]
        ELSE IF multiway_split_position < 0 \/ multiway_split_position > Len(hidden_states)
        THEN [ok |-> FALSE, error |-> "RuntimeError"]
        ELSE
        Bind(IF IsNone(text_end_position) THEN Arange2(multiway_split_position)
             ELSE Get(text_end_position), LAMBDA text_positions :
        Bind(IF IsNone(text_end_position) THEN Arange2(Len(hidden_states) - multiway_split_position)
             ELSE Get(text_end_position), LAMBDA image_positions :
          [ok |-> TRUE,
           out |-> [i \in 1..Len(text_positions) |-> [position |-> text_positions[i], by |-> "image"]]
                   \o [i \in 1..Len(image_positions) |-> [position |-> image_positions[i], by |-> "text"]]])))

(* Beit3Encoder.add_position_embeddings: hidden_state + embeddings, which  *)
(* raises unless the two have one length or the embeddings have length 1   *)
AddPositionEmbeddings(hidden_state, text_end_positions, multiway_split_position) ==
    Bind(Beit3PositionEmbeddings(hidden_state, text_end_positions, multiway_split_position), LAMBDA e :
        IF ~e.ok THEN e
        ELSE IF Len(e.out) \notin {1, Len(hidden_state)}
        THEN [ok |-> FALSE, error |-> "RuntimeError"]
        ELSE [ok |-> TRUE,
              out |-> [i \in 1..Len(hidden_state) |->
                         Bind(e.out[IF Len(e.out) = 1 THEN 1 ELSE i], LAMBDA p :
                            [token |-> hidden_state[i], by |-> p.by, position |-> p.position])]])

NewBeit3Model(num_patches) == [num_position_embeddings |-> num_patches + 1]

(* Beit3Model.forward on an optional image and an optional text of the     *)
(* given length: the tokens embedded, the split position, and how each     *)
(* kind of multiway module of the encoder routed them.  The modules of a   *)
(* kind are all given the same split position, and the layers keep the     *)
(* positions of the hidden state.                                          *)
Beit3ModelForward(model, input_ids, pixel_values, text_end_positions) ==
    IF IsNone(input_ids) /\ ~pixel_values THEN [ok |-> FALSE, error |-> "ValueError"]
    ELSE
    Bind(IF pixel_values
         THEN [j \in 1..model.num_position_embeddings |-> [of |-> "image", index |-> j]] ELSE <<>>,
      LAMBDA vision_embeddings :
    Bind(IF IsNone(input_ids) THEN <<>>
         ELSE [j \in 1..Len(Get(input_ids)) |-> [of |-> "text", index |-> j]],
      LAMBDA text_embeddings :
    Bind(IF IsNone(input_ids) THEN -1 ELSE IF ~pixel_values THEN 0 ELSE Len(vision_embeddings),
      LAMBDA multiway_split_position :
    Bind(vision_embeddings \o text_embeddings, LAMBDA embeddings :
    Bind(AddPositionEmbeddings(embeddings, text_end_positions, multiway_split_position), LAMBDA p :
    Bind(Beit3LayerNorm(embeddings, multiway_split_position), LAMBDA n :
    Bind(Beit3AttentionLinear(embeddings, multiway_split_position), LAMBDA l :
    Bind(Beit3MultiwayFeedForwardNetwork(embeddings, multiway_split_position), LAMBDA f :
        IF ~p.ok THEN p
        ELSE IF ~n.ok THEN n
        ELSE IF ~l.ok THEN l
        ELSE IF ~f.ok THEN f
        ELSE [ok |-> TRUE, embeddings |-> embeddings,
              multiway_split_position |-> multiway_split_position,
              routed |-> [embed_positions |-> p.out, layer_norm |-> n.out,
                          linear |-> l.out, ffn |-> f.out]]))))))))

Beit3 == module.model

(* the start positions a caption loop gives for its new tokens *)
TextStarts == {2, 3}

ConstructBeit3Model ==
    /\ module.cls = "none"
    /\ \E p \in PatchCounts :
          /\ module' = [cls |-> "Beit3Model", model |-> NewBeit3Model(p)]
          /\ call' = [op |-> "new", cls |-> "Beit3Model", num_patches |-> p]
    /\ UNCHANGED <<bsz, past, fed>>

(* One call of the model, on an image, on a text, or on an image followed  *)
(* by a text.  text_end_positions is given as Beit3ForCaptioning gives it: *)
(* with a text alone, one position per token.  fed keeps how the calls so  *)
(* far routed their tokens.                                                *)
ModelForward ==
    /\ module.cls = "Beit3Model"
    /\ Len(fed) < MaxCalls
    /\ \E n \in {0} \cup TextLens, pixel_values \in BOOLEAN, start \in {0} \cup TextStarts :
        \E input_ids \in {IF n = 0 THEN None ELSE Some([j \in 1..n |-> j])} :
         \E text_end_positions \in {IF start = 0 THEN None ELSE Some([j \in 1..n |-> start + j - 1])} :
          \E r \in {Beit3ModelForward(Beit3, input_ids, pixel_values, text_end_positions)} :
            /\ start # 0 => (n # 0 /\ ~pixel_values)
            /\ call' = [op |-> "model", input_ids |-> input_ids, pixel_values |-> pixel_values,
                        text_end_positions |-> text_end_positions, res |-> r]
            /\ fed' = IF r.ok THEN Append(fed, r.routed) ELSE fed
    /\ UNCHANGED <<module, bsz, past>>

(* the caller drops the outputs it has kept *)
Forget ==
    /\ module.cls = "Beit3Model"
    /\ Len(fed) = MaxCalls
    /\ fed' = <<>>
    /\ call' = [op |-> "forget"]
    /\ UNCHANGED <<module, bsz, past>>

NextMultiway == ConstructBeit3Model \/ ModelForward \/ Forget

SpecMultiway == Init /\ [][NextMultiway]_vars

MultiwayModules == {"embed_positions", "layer_norm", "linear", "ffn"}

IsModelCall == module.cls = "Beit3Model" /\ call.op = "model" /\ call.res.ok

(* C23: in each kind of multiway module a token of a given modality is     *)
(* processed by the same branch in every call, whether the call is on an   *)
(* image, on a text or on an image followed by a text, and the output of   *)
(* the module has the tokens of its input, in their order.                 *)
C23_ModalityKeepsItsBranch ==
    module.cls = "Beit3Model" =>
        \A m \in MultiwayModules :
            /\ \A c1 \in 1..Len(fed), c2 \in 1..Len(fed) :
                 \A i \in 1..Len(fed[c1][m]), j \in 1..Len(fed[c2][m]) :
                    fed[c1][m][i].token.of = fed[c2][m][j].token.of
                        => fed[c1][m][i].by = fed[c2][m][j].by
            /\ IsModelCall =>
                 /\ Len(call.res.routed[m]) = Len(call.res.embeddings)
                 /\ \A i \in 1..Len(call.res.embeddings) :
                       call.res.routed[m][i].token = call.res.embeddings[i]

(* an image alone, a text alone and an image followed by a text have each  *)
(* been through the model                                                  *)
C23_Witness ==
    /\ module.cls = "Beit3Model" /\ Len(fed) = 3 /\ IsModelCall
    /\ \A i \in 1..Len(fed[1]["ffn"]) : fed[1]["ffn"][i].token.of = "image"
    /\ \A i \in 1..Len(fed[2]["ffn"]) : fed[2]["ffn"][i].token.of = "text"
    /\ call.res.multiway_split_position = 2
    /\ Len(call.res.embeddings) = 4
    /\ call.res.routed["ffn"][2].token.of = "image"
    /\ call.res.routed["ffn"][3].token.of = "text"
    /\ call.res.routed["ffn"][2].by # call.res.routed["ffn"][3].by

(***************************************************************************)
(*                          THE OPENVINO MODEL                             *)
(*                                                                         *)
(* OpenVINOModel wraps a network read by the inference engine and loads an *)
(* executable network from it on demand.  An array is modelled by its      *)
(* shape and a tag for its content, the net by the shapes of its two       *)
(* inputs, an executable network by the shapes of the net it was loaded    *)
(* from, and an attribute of the object by whether it has been assigned    *)
(* and its value.  The engine is a library the model uses: whether the     *)
(* shape it reports for an input is a list or a tuple is left open, and a  *)
(* list never equals the tuple that is the shape of an array.              *)
(***************************************************************************)

Unassigned == [assigned |-> FALSE]

Assigned(value) == [assigned |-> TRUE, value |-> value]

(* OpenVINOModel.__init__ *)
NewOpenVINOModel(net) == [net |-> net, exec_net |-> Unassigned]

(* inputs_info["input_ids"].input_data.shape != input_ids.shape *)
ShapeDiffers(net, shape) ==
    IF net.shape_is_list THEN TRUE ELSE net.input_ids # shape

(* self.net.reshape *)
Reshape(net, input_ids_shape, attention_mask_shape) ==
    [net EXCEPT !.input_ids = input_ids_shape, !.attention_mask = attention_mask_shape]

(* ie.load_network(self.net, "CPU") *)
LoadNetwork(net) == [input_ids |-> net.input_ids, attention_mask |-> net.attention_mask]

(* exec_net.infer: the engine rejects an input whose shape is not the one  *)
(* the network was loaded with                                             *)
Infer(exec_net, input_ids, attention_mask) ==
    IF exec_net.input_ids # input_ids.shape \/ exec_net.attention_mask # attention_mask.shape
    THEN [ok |-> FALSE, error |-> "RuntimeError"]
    ELSE [ok |-> TRUE, outs |-> <<[shape |-> input_ids.shape, of |-> input_ids.data]>>]

(* OpenVINOModel.__call__: the object as the call leaves it, whether the   *)
(* call reshaped the net and loaded a network, the network the inference   *)
(* ran on and what it returned                                             *)
OpenVINOCall(model, input_ids, attention_mask_arg) ==
    Bind(IF IsNone(attention_mask_arg) THEN [shape |-> input_ids.shape, data |-> "ones"]
         ELSE Get(attention_mask_arg), LAMBDA attention_mask :
    Bind(ShapeDiffers(model.net, input_ids.shape), LAMBDA differs :
    Bind(IF differs
         THEN [net |-> Reshape(model.net, input_ids.shape, attention_mask.shape),
               exec_net |-> Assigned(None)]
         ELSE model, LAMBDA model1 :
        IF ~model1.exec_net.assigned
        THEN [ok |-> FALSE, error |-> "AttributeError", model |-> model1,
              reshaped |-> differs, loaded |-> FALSE]
        ELSE
    Bind(IsNone(model1.exec_net.value), LAMBDA loads :
    Bind(IF loads THEN [model1 EXCEPT !.exec_net = Assigned(Some(LoadNetwork(model1.net)))]
         ELSE model1, LAMBDA model2 :
    Bind(Infer(Get(model2.exec_net.value), input_ids, attention_mask), LAMBDA r :
        IF ~r.ok
        THEN [ok |-> FALSE, error |-> r.error, model |-> model2, reshaped |-> differs, loaded |-> loads]
        ELSE [ok |-> TRUE, model |-> model2, reshaped |-> differs, loaded |-> loads,
              ran_on |-> Get(model2.exec_net.value), ret |-> <<r.outs[1]>>]))))))

OVModel == module.model

InputShapes == {<<1, 11>>, <<1, 2>>, <<2, 2>>}

InputData == {"x", "y"}

(* load_ov_model_from_pytorch, load_ov_model_from_tf and                   *)
(* load_ov_model_from_ir read a net and wrap it                            *)
ConstructOVModel ==
    /\ module.cls = "none"
    /\ \E shape \in InputShapes, shape_is_list \in BOOLEAN :
        \E net \in {[input_ids |-> shape, attention_mask |-> shape, shape_is_list |-> shape_is_list]} :
          /\ module' = [cls |-> "OpenVINOModel", model |-> NewOpenVINOModel(net), inferred |-> FALSE]
          /\ call' = [op |-> "new", cls |-> "OpenVINOModel", net |-> net]
    /\ UNCHANGED <<bsz, past, fed>>

(* model(input_ids, attention_mask), with no mask or a mask of the shape   *)
(* of input_ids; module.inferred tells whether an inference has been made  *)
(* before                                                                  *)
CallOVModel ==
    /\ module.cls = "OpenVINOModel"
    /\ \E shape \in InputShapes, data \in InputData, given \in BOOLEAN :
        \E input_ids \in {[shape |-> shape, data |-> data]} :
         \E attention_mask \in {IF given THEN Some([shape |-> shape, data |-> "mask"]) ELSE None} :
          \E r \in {OpenVINOCall(OVModel, input_ids, attention_mask)} :
            /\ call' = [op |-> "infer", self |-> OVModel, first |-> ~module.inferred,
                        input_ids |-> input_ids, attention_mask |-> attention_mask, res |-> r]
            /\ module' = [module EXCEPT !.model = r.model, !.inferred = @ \/ r.ok]
    /\ UNCHANGED <<bsz, past, fed>>

NextOV == ConstructOVModel \/ CallOVModel

SpecOV == Init /\ [][NextOV]_vars

IsInference == module.cls = "OpenVINOModel" /\ call.op = "infer"

(* C24: every inference call returns a result computed on an executable    *)
(* network loaded from the net as it is, with the shape of the input; a    *)
(* network is loaded by the first inference, also when its input has the   *)
(* net's shape already, and by a later one exactly when the shape of its   *)
(* input differs from the net's.                                           *)
C24_RunsOnFreshNetwork ==
    IsInference =>
        /\ call.res.ok
        /\ call.res.ran_on = LoadNetwork(OVModel.net)
        /\ call.res.ran_on.input_ids = call.input_ids.shape
        /\ call.res.loaded <=> (call.first \/ call.self.net.input_ids # call.input_ids.shape)

(* the first inference, on an input of the net's shape: reading            *)
(* self.exec_net raises AttributeError                                     *)
C24_Witness ==
    /\ IsInference /\ call.first
    /\ ~call.self.net.shape_is_list
    /\ call.self.net.input_ids = call.input_ids.shape
    /\ ~call.res.ok /\ call.res.error = "AttributeError"

(***************************************************************************)
(*             WAVLM: THE ATTENTION MASK OF THE FEATURE VECTORS            *)
(*                                                                         *)
(* _get_feature_vector_attention_mask turns the mask over the input        *)
(* samples into a mask over the feature vectors the convolutions make of   *)
(* them.  A mask is modelled by its rows of 0 and 1.  `//` on integer      *)
(* tensors rounds towards minus infinity in the newer releases of torch    *)
(* and towards zero in the older ones; the configuration of the model      *)
(* records which.                                                          *)
(***************************************************************************)

FloorDiv(a, b) == IF a >= 0 THEN a \div b ELSE -((b - a - 1) \div b)

TruncDiv(a, b) == IF a >= 0 THEN a \div b ELSE -((-a) \div b)

(* _conv_out_length *)
ConvOutLength(input_length, kernel_size, stride, floors) ==
    (IF floors THEN FloorDiv(input_length - kernel_size, stride)
     ELSE TruncDiv(input_length - kernel_size, stride)) + 1

RECURSIVE ConvLayersOutLength(_, _, _, _)
ConvLayersOutLength(input_length, conv, i, floors) ==
    IF i > Len(conv) THEN input_length
    ELSE ConvLayersOutLength(ConvOutLength(input_length, conv[i][1], conv[i][2], floors), conv, i + 1, floors)

RECURSIVE AdapterOutLength(_, _, _, _)
AdapterOutLength(input_length, layers, adapter_stride, floors) ==
    IF layers = 0 THEN input_length
    ELSE AdapterOutLength(ConvOutLength(input_length, 1, adapter_stride, floors), layers - 1, adapter_stride, floors)

(* _get_feat_extract_output_lengths, for one length; add_adapter is the    *)
(* optional argument                                                       *)
GetFeatExtractOutputLengths(config, input_length, add_adapter) ==
    Bind(ConvLayersOutLength(input_length, config.conv, 1, config.floors), LAMBDA n :
        IF (IF IsNone(add_adapter) THEN config.add_adapter ELSE Get(add_adapter))
        THEN AdapterOutLength(n, config.num_adapter_layers, config.adapter_stride, config.floors)
        ELSE n)

(* attention_mask.cumsum(dim=-1)[:, -1] of one row *)
RECURSIVE RowSum(_, _)
RowSum(row, n) == IF n = 0 THEN 0 ELSE RowSum(row, n - 1) + row[n]

(* row.flip([-1]).cumsum(-1).flip([-1]).bool() *)
FlipCumsumFlip(row) ==
    [j \in 1..Len(row) |-> RowSum(row, Len(row)) - RowSum(row, j - 1) # 0]

(* a row of zeros with attention_mask[row, output_length - 1] = 1: an      *)
(* index below 0 counts from the end of the row                            *)
SetLastAttended(feature_vector_length, output_length) ==
    IF output_length - 1 >= feature_vector_length \/ output_length - 1 < -feature_vector_length
    THEN [ok |-> FALSE, error |-> "IndexError"]
    ELSE Bind(IF output_length - 1 < 0 THEN output_length - 1 + feature_vector_length
              ELSE output_length - 1, LAMBDA idx :
           [ok |-> TRUE, row |-> [j \in 1..feature_vector_length |-> IF j = idx + 1 THEN 1 ELSE 0]])

(* _get_feature_vector_attention_mask *)
GetFeatureVectorAttentionMask(config, feature_vector_length, attention_mask, add_adapter) ==
    Bind([b \in 1..Len(attention_mask) |->
            SetLastAttended(feature_vector_length,
                GetFeatExtractOutputLengths(config, RowSum(attention_mask[b], Len(attention_mask[b])),
                                            add_adapter))],
      LAMBDA rows :
        IF \E b \in 1..Len(rows) : ~rows[b].ok
        THEN [ok |-> FALSE, error |-> "IndexError"]
        ELSE [ok |-> TRUE, mask |-> [b \in 1..Len(rows) |-> FlipCumsumFlip(rows[b].row)]])

(* kernel size and stride of each convolution of the feature extractor *)
ConvConfigs == {<<<<2, 2>>>>, <<<<3, 1>>>>, <<<<2, 1>>, <<2, 1>>>>}

AdapterConfigs == {<<FALSE, 0, 1>>, <<TRUE, 1, 2>>}

(* the numbers of samples of a padded batch *)
SampleCounts == {4, 5}

(* a row of n samples of which the first k are not padding *)
PaddedRow(n, k) == [j \in 1..n |-> IF j <= k THEN 1 ELSE 0]

WavLMConfig == module.config

ConstructWavLM ==
    /\ module.cls = "none"
    /\ \E conv \in ConvConfigs, a \in AdapterConfigs, floors \in BOOLEAN :
          /\ module' = [cls |-> "WavLMModel",
                        config |-> [conv |-> conv, add_adapter |-> a[1], num_adapter_layers |-> a[2],
                                    adapter_stride |-> a[3], floors |-> floors]]
          /\ call' = [op |-> "new", cls |-> "WavLMModel"]
    /\ UNCHANGED <<bsz, past, fed>>

(* A forward pass masks the feature vectors of a batch of two utterances   *)
(* padded to one number of samples.  WavLMModel.forward passes             *)
(* add_adapter=False and the number of vectors the extractor made of the   *)
(* padded input; WavLMForSequenceClassification.forward leaves add_adapter *)
(* out and passes the number of hidden states, which the adapter, when the *)
(* configuration has one, has shortened.                                   *)
MaskFeatures ==
    /\ module.cls = "WavLMModel"
    /\ \E n \in SampleCounts, add_adapter \in {None, Some(FALSE)} :
        \E k1 \in 0..n, k2 \in 0..n :
         \E attention_mask \in {<<PaddedRow(n, k1), PaddedRow(n, k2)>>} :
          \E feature_vector_length \in {GetFeatExtractOutputLengths(WavLMConfig, n, add_adapter)} :
            /\ feature_vector_length >= 1
            /\ call' = [op |-> "mask", feature_vector_length |-> feature_vector_length,
                        attention_mask |-> attention_mask, add_adapter |-> add_adapter,
                        res |-> GetFeatureVectorAttentionMask(WavLMConfig, feature_vector_length,
                                                              attention_mask, add_adapter)]
    /\ UNCHANGED <<module, bsz, past, fed>>

NextFeatureMask == ConstructWavLM \/ MaskFeatures

SpecFeatureMask == Init /\ [][NextFeatureMask]_vars

IsMaskCall == module.cls = "WavLMModel" /\ call.op = "mask"

(* the convolution output length of row b of the last call *)
OutputLength(b) ==
    GetFeatExtractOutputLengths(WavLMConfig, RowSum(call.attention_mask[b], Len(call.attention_mask[b])), call.add_adapter)

(* C25: for each row of the batch the mask returned is true at exactly the *)
(* feature positions before the convolution output length of the row's     *)
(* non-padded samples, and false at every later position.                  *)
C25_MaskMatchesOutputLength ==
    IsMaskCall =>
        /\ call.res.ok
        /\ \A b \in 1..Len(call.attention_mask) : \A j \in 1..call.feature_vector_length :
              call.res.mask[b][j] <=> (j <= OutputLength(b))

(* a row that is all padding next to a full one: its output length is      *)
(* below 1, the index output_length - 1 counts from the end of the row,    *)
(* and the row comes back with positions marked true                       *)
C25_Witness ==
    /\ IsMaskCall /\ call.res.ok /\ call.add_adapter = Some(FALSE)
    /\ RowSum(call.attention_mask[1], Len(call.attention_mask[1])) = Len(call.attention_mask[1])
    /\ RowSum(call.attention_mask[2], Len(call.attention_mask[2])) = 0
    /\ OutputLength(2) < 1
    /\ call.res.mask[2][1]
    /\ \A j \in 1..call.feature_vector_length : call.res.mask[1][j]

====
